---------------------------- MODULE Spec2Model ----------------------------
(***************************************************************************)
(* A model of anime-mux: episode-number inference from file names          *)
(* (matcher.py), track identity keys (models.py), cross-episode            *)
(* reconciliation (analyzer.py), the interactive gap resolver              *)
(* (selector.py), plan construction (planner.py) and the CLI workflow      *)
(* (cli.py).                                                               *)
(*                                                                         *)
(* Strings are sequences of one-character strings, so that formatting,     *)
(* slicing and regular-expression matching are computed, not assumed.      *)
(***************************************************************************)
EXTENDS Integers, Sequences, FiniteSets, TLC

VARIABLES
    files,       \* matcher: the list of paths handed to extract_episode_numbers
    result,      \* matcher: the returned episode -> path mapping
    mpc,         \* matcher: "start" | "done"
    trackA,      \* identity: a Track
    trackB,      \* identity: another Track
    keyA,        \* identity: trackA.identity_key, once computed
    keyB,        \* identity: trackB.identity_key, once computed
    ipc,         \* identity: "start" | "done"
    episode_list,   \* analyzer: list(episodes.values()), ascending by number
    common_audio,   \* analyzer: AnalysisResult.common_embedded_audio
    common_subs,    \* analyzer: AnalysisResult.common_embedded_subs
    missing_tracks, \* analyzer: AnalysisResult.missing_tracks
    apc,            \* analyzer: "start" | "common" | "done"
    external_audio_sources,    \* AnalysisResult: the sources, in dict order
    external_subtitle_sources,
    wpc,                  \* cli: the statement _run / select_tracks is at
    audio_selections,     \* select_tracks: list[TrackSelection]
    subtitle_selections,
    gap_idx,              \* _handle_gaps: how far its two loops have come
    audio_subs,           \* _handle_gaps(audio): substitutions
    audio_skipped,        \* _handle_gaps(audio): skipped
    sub_subs,             \* _handle_gaps(subtitle): substitutions
    sub_skipped,          \* _handle_gaps(subtitle): skipped
    prompts,              \* the gap prompts answered so far, oldest first
    selection_result,     \* None until select_tracks returns
    plan,                 \* None until build_merge_plan returns
    executed,             \* execute_plan has been called
    exit_code,            \* None while the process runs
    events,               \* cli: what _run has got done so far, oldest first
    output_dir,           \* cli: output or (directory / "output")
    video_files,          \* analyze_series: what find_video_files returns
    video_map,            \* analyze_series: extract_episode_numbers(video_files)
    failing,              \* the files ffprobe fails on or finds no stream in
    unmatched_external_files,  \* analyze_series: unmatched_files
    exec_jobs,            \* execute_plan: plan.jobs with the state of the world
    overwrite,            \* execute_plan: overwrite
    verbose,              \* execute_plan: verbose
    cpu_count,            \* os.cpu_count()
    num_workers,          \* execute_plan: num_workers
    job_idx,              \* _execute_with_progress: the job the loop is at
    futures,              \* _execute_parallel: the submitted calls of _process_job
    successful_count,     \* the three counters of both execution paths
    failed_count,
    skipped_count,
    ffmpeg_runs,          \* the episodes an ffmpeg command has been run for
    xpc                   \* executor: the statement execute_plan is at

matcherVars == <<files, result, mpc>>
identityVars == <<trackA, trackB, keyA, keyB, ipc>>
analyzerVars == <<episode_list, common_audio, common_subs, missing_tracks, apc>>
sourceVars == <<external_audio_sources, external_subtitle_sources>>
selectorVars == <<audio_selections, subtitle_selections, gap_idx, audio_subs,
                  audio_skipped, sub_subs, sub_skipped, prompts, selection_result>>
cliVars == <<wpc, plan, executed, exit_code, events>>
optionVars == <<output_dir>>
workflowVars == <<sourceVars, selectorVars, cliVars, optionVars>>
seriesVars == <<video_files, video_map, failing, unmatched_external_files>>
executorVars == <<exec_jobs, overwrite, verbose, cpu_count, num_workers, job_idx,
                  futures, successful_count, failed_count, skipped_count,
          ffmpeg_runs, xpc>>
vars == <<files, result, mpc, trackA, trackB, keyA, keyB, ipc,
          episode_list, common_audio, common_subs, missing_tracks, apc,
          external_audio_sources, external_subtitle_sources, wpc,
          audio_selections, subtitle_selections, gap_idx, audio_subs,
          audio_skipped, sub_subs, sub_skipped, prompts, selection_result,
          plan, executed, exit_code, events, output_dir,
          video_files, video_map, failing, unmatched_external_files,
          exec_jobs, overwrite, verbose, cpu_count, num_workers, job_idx,
          futures, successful_count, failed_count, skipped_count,
          ffmpeg_runs, xpc>>

--------------------------------------------------------------------------
(* Characters                                                              *)

UpperCase == <<"A","B","C","D","E","F","G","H","I","J","K","L","M",
               "N","O","P","Q","R","S","T","U","V","W","X","Y","Z">>
LowerCase == <<"a","b","c","d","e","f","g","h","i","j","k","l","m",
               "n","o","p","q","r","s","t","u","v","w","x","y","z">>
DigitChars == <<"0","1","2","3","4","5","6","7","8","9">>

Range(s) == {s[i] : i \in DOMAIN s}

DigitSet == Range(DigitChars)
UpperSet == Range(UpperCase)
AlphaSet == Range(UpperCase) \cup Range(LowerCase)

\* int() of one digit
DigitValue == [c \in DigitSet |-> (CHOOSE i \in DOMAIN DigitChars : DigitChars[i] = c) - 1]

\* str.lower() of one upper-case letter
LowerOf == [c \in UpperSet |-> LowerCase[CHOOSE i \in DOMAIN UpperCase : UpperCase[i] = c]]

\* \d of the patterns (ASCII digits)
IsDigit(c) == c \in DigitSet

\* [a-zA-Z] of the lookbehind and lookahead
IsAlpha(c) == c \in AlphaSet

DigitVal(c) == DigitValue[c]

\* re.IGNORECASE compares characters after case folding
Fold(c) == IF c \in UpperSet THEN LowerOf[c] ELSE c

\* mutant of EqFold: the pattern compiled without re.IGNORECASE
EqFold_CaseSensitive(a, b) == a = b

\* a literal (re.escape'd) piece of a pattern matches text under IGNORECASE
EqFold(a, b) ==
    /\ Len(a) = Len(b)
    /\ \A i \in 1..Len(a) : Fold(a[i]) = Fold(b[i])

\* s[from:to] of Python, on 1-based inclusive positions (empty when from > to)
Slice(s, from, to) == [i \in 1..(to - from + 1) |-> s[from + i - 1]]

AllDigits(s) == \A i \in DOMAIN s : IsDigit(s[i])

\* int(num_str): decimal value, leading zeros dropped
RECURSIVE ToInt(_)
ToInt(ds) ==
    IF ds = <<>> THEN 0
    ELSE ToInt(Slice(ds, 1, Len(ds) - 1)) * 10 + DigitVal(ds[Len(ds)])

--------------------------------------------------------------------------
(* matcher.py: extract_episode_numbers and _try_prefixed_pattern           *)

SPECIAL_EPISODE_PREFIXES ==
    << <<"O","V","A">>, <<"O","A","D">>, <<"S","P">>,
       <<"S","p","e","c","i","a","l">>, <<"E","x","t","r","a">>,
       <<"B","o","n","u","s">>, <<"M","o","v","i","e">> >>

\* Path.name: the last component of a path
PathName(p) == p.name

\* the return value {} of a dict-returning function
EmptyMap == << >>

\* mutant of RunEnd: every digit is a run of its own (\d for \d+)
RunEnd_OneDigit(name, i) == i

\* the end of the maximal digit run that starts at position i
RECURSIVE RunEnd(_, _)
RunEnd(name, i) ==
    IF i < Len(name) /\ IsDigit(name[i + 1]) THEN RunEnd(name, i + 1) ELSE i

\* list(re.finditer(r"\d+", template_name)): the maximal digit runs, left to
\* right, each as its first and last position
RECURSIVE FindRuns(_, _)
FindRuns(name, i) ==
    IF i > Len(name) THEN << >>
    ELSE IF IsDigit(name[i])
         THEN <<[s |-> i, e |-> RunEnd(name, i)]>> \o FindRuns(name, RunEnd(name, i) + 1)
         ELSE FindRuns(name, i + 1)

NumericParts(name) == FindRuns(name, 1)

\* mutant of PatternMatch: the text after the capture is not compared (the
\* pattern lacks its suffix and end anchor)
PatternMatch_NoSuffix(prefix, suffix, minDigits, name) ==
    LET lo == Len(prefix) + 1
        hi == Len(name) - Len(suffix)
    IN  IF /\ hi - lo + 1 >= minDigits
           /\ EqFold(Slice(name, 1, lo - 1), prefix)
           /\ AllDigits(Slice(name, lo, hi))
        THEN [matched |-> TRUE, group1 |-> Slice(name, lo, hi)]
        ELSE [matched |-> FALSE, group1 |-> << >>]

\* pattern.match(name) for ^<prefix>(\d+)<suffix>$ or, with minDigits = 0,
\* ^<before>(?:<marker>)(\d*)<after>$ (before and marker are one literal):
\* the literals are escaped and compared ignoring case, the pattern is anchored
\* at both ends, so the capture is what lies between them.
PatternMatch(prefix, suffix, minDigits, name) ==
    LET lo == Len(prefix) + 1
        hi == Len(name) - Len(suffix)
    IN  IF /\ hi - lo + 1 >= minDigits
           /\ EqFold(Slice(name, 1, lo - 1), prefix)
           /\ EqFold(Slice(name, hi + 1, Len(name)), suffix)
           /\ AllDigits(Slice(name, lo, hi))
        THEN [matched |-> TRUE, group1 |-> Slice(name, lo, hi)]
        ELSE [matched |-> FALSE, group1 |-> << >>]

\* the validation loop over the files (matcher.py 107-119 and 48-60): it stops
\* at the first file that does not match or repeats an episode number
RECURSIVE ValidateFrom(_, _, _, _, _, _)
ValidateFrom(fs, prefix, suffix, minDigits, i, episode_map) ==
    IF i > Len(fs) THEN [is_valid |-> TRUE, episode_map |-> episode_map]
    ELSE LET m == PatternMatch(prefix, suffix, minDigits, PathName(fs[i]))
             episode_num == IF m.group1 = << >> THEN 1 ELSE ToInt(m.group1)
         IN  IF ~m.matched
             THEN [is_valid |-> FALSE, episode_map |-> episode_map]
             ELSE IF episode_num \in DOMAIN episode_map
             THEN [is_valid |-> FALSE, episode_map |-> episode_map]
             ELSE ValidateFrom(fs, prefix, suffix, minDigits, i + 1,
                               episode_map @@ (episode_num :> fs[i]))

\* mutant of Candidate: any nonempty episode_map is returned, also the partial
\* one of a loop that stopped early ("if episode_map:")
Candidate_AcceptsPartial(fs, prefix, suffix, minDigits) ==
    ValidateFrom(fs, prefix, suffix, minDigits, 1, << >>).episode_map

\* one candidate: the map it yields, or EmptyMap when it is rejected
\* (is_valid and len(episode_map) == len(files))
Candidate(fs, prefix, suffix, minDigits) ==
    LET v == ValidateFrom(fs, prefix, suffix, minDigits, 1, EmptyMap)
    IN  IF v.is_valid /\ Cardinality(DOMAIN v.episode_map) = Len(fs)
        THEN v.episode_map
        ELSE EmptyMap

\* mutant of MarkerAt: no lookbehind, the marker may end a longer word
MarkerAt_NoLookbehind(name, marker, i) ==
    /\ i + Len(marker) - 1 <= Len(name)
    /\ EqFold(Slice(name, i, i + Len(marker) - 1), marker)
    /\ LET e == RunEnd(name, i + Len(marker) - 1)
       IN  e < Len(name) => ~IsAlpha(name[e + 1])

\* whether the special-marker regex
\* (?<![a-zA-Z])(<marker>)(\d*)(?![a-zA-Z\d]) matches the template at position i;
\* \d* is greedy and a shorter run would be followed by a digit, so the match
\* takes the whole digit run
MarkerAt(name, marker, i) ==
    /\ i + Len(marker) - 1 <= Len(name)
    /\ EqFold(Slice(name, i, i + Len(marker) - 1), marker)
    /\ (i > 1 => ~IsAlpha(name[i - 1]))
    /\ LET e == RunEnd(name, i + Len(marker) - 1)
       IN  e < Len(name) => ~IsAlpha(name[e + 1])

\* the candidates of one marker, over its occurrences in the template from
\* position i on (matcher.py 30-63)
RECURSIVE TryMarkerFrom(_, _, _)
TryMarkerFrom(fs, marker, i) ==
    LET template_name == PathName(fs[1])
    IN  IF i > Len(template_name) THEN EmptyMap
        ELSE IF ~MarkerAt(template_name, marker, i) THEN TryMarkerFrom(fs, marker, i + 1)
        ELSE LET e == RunEnd(template_name, i + Len(marker) - 1)
                 before == Slice(template_name, 1, i - 1)
                 after == Slice(template_name, e + 1, Len(template_name))
                 m == Candidate(fs, before \o marker, after, 0)
             IN  IF m # EmptyMap THEN m ELSE TryMarkerFrom(fs, marker, e + 1)

RECURSIVE TryPrefixesFrom(_, _)
TryPrefixesFrom(fs, k) ==
    IF k > Len(SPECIAL_EPISODE_PREFIXES) THEN EmptyMap
    ELSE LET m == TryMarkerFrom(fs, SPECIAL_EPISODE_PREFIXES[k], 1)
         IN  IF m # EmptyMap THEN m ELSE TryPrefixesFrom(fs, k + 1)

_try_prefixed_pattern(fs) == TryPrefixesFrom(fs, 1)

\* the digit-run candidates of the template, from run k down to the first
\* (for match in reversed(numeric_parts))
RECURSIVE TryRunsFrom(_, _, _)
TryRunsFrom(fs, numeric_parts, k) ==
    IF k < 1 THEN EmptyMap
    ELSE LET template_name == PathName(fs[1])
             prefix == Slice(template_name, 1, numeric_parts[k].s - 1)
             suffix == Slice(template_name, numeric_parts[k].e + 1, Len(template_name))
             m == Candidate(fs, prefix, suffix, 1)
         IN  IF m # EmptyMap THEN m ELSE TryRunsFrom(fs, numeric_parts, k - 1)

\* mutant of extract_episode_numbers: a lone file is put through pattern
\* inference as well
extract_episode_numbers_InfersLoneFile(fs) ==
    IF fs = << >> THEN EmptyMap
    ELSE LET numeric_parts == NumericParts(PathName(fs[1]))
             m == TryRunsFrom(fs, numeric_parts, Len(numeric_parts))
         IN  IF m # EmptyMap THEN m ELSE _try_prefixed_pattern(fs)

extract_episode_numbers(fs) ==
    IF fs = << >> THEN EmptyMap
    ELSE IF Len(fs) = 1 THEN (1 :> fs[1])
    ELSE LET numeric_parts == NumericParts(PathName(fs[1]))
             m == TryRunsFrom(fs, numeric_parts, Len(numeric_parts))
         IN  IF m # EmptyMap THEN m ELSE _try_prefixed_pattern(fs)

--------------------------------------------------------------------------
(* models.py: Track and Track.identity_key                                 *)

\* Optional[...]: None is the empty sequence, a present value x is <<x>>
None == << >>
Some(x) == <<x>>

\* "x or default" of Python for an Optional[str] / Optional[int]: None and
\* the falsy values '' and 0 all give the default
OrEmpty(title) == IF title = None \/ title = Some(<< >>) THEN << >> ELSE title[1]
OrZero(channels) == IF channels = None \/ channels = Some(0) THEN 0 ELSE channels[1]

\* str(n) of a non-negative int
RECURSIVE IntToStr(_)
IntToStr(n) ==
    IF n < 10 THEN <<DigitChars[n + 1]>>
    ELSE IntToStr(n \div 10) \o <<DigitChars[(n % 10) + 1]>>

\* str(b) of a bool
BoolToStr(b) == IF b THEN <<"T","r","u","e">> ELSE <<"F","a","l","s","e">>

\* TrackType.<X>.name
TypeName(track_type) ==
    CASE track_type = "VIDEO" -> <<"V","I","D","E","O">>
      [] track_type = "AUDIO" -> <<"A","U","D","I","O">>
      [] track_type = "SUBTITLE" -> <<"S","U","B","T","I","T","L","E">>
      [] track_type = "ATTACHMENT" -> <<"A","T","T","A","C","H","M","E","N","T">>

Bar == <<"|">>

\* mutant of identity_key: the audio key leaves the channel count out
identity_key_NoChannels(t) ==
    IF t.track_type = "AUDIO"
    THEN <<"a","u","d","i","o">> \o Bar \o t.language \o Bar \o OrEmpty(t.title)
    ELSE IF t.track_type = "SUBTITLE"
    THEN <<"s","u","b">> \o Bar \o t.language \o Bar \o OrEmpty(t.title)
             \o Bar \o BoolToStr(t.is_forced)
    ELSE TypeName(t.track_type) \o Bar \o t.codec

\* mutant of identity_key: the audio key carries the codec as well
identity_key_WithCodec(t) ==
    IF t.track_type = "AUDIO"
    THEN <<"a","u","d","i","o">> \o Bar \o t.language \o Bar \o OrEmpty(t.title)
             \o Bar \o IntToStr(OrZero(t.channels)) \o Bar \o t.codec
    ELSE IF t.track_type = "SUBTITLE"
    THEN <<"s","u","b">> \o Bar \o t.language \o Bar \o OrEmpty(t.title)
             \o Bar \o BoolToStr(t.is_forced)
    ELSE TypeName(t.track_type) \o Bar \o t.codec

\* Track.identity_key: the f-strings of models.py 237-242
identity_key(t) ==
    IF t.track_type = "AUDIO"
    THEN <<"a","u","d","i","o">> \o Bar \o t.language \o Bar \o OrEmpty(t.title)
             \o Bar \o IntToStr(OrZero(t.channels))
    ELSE IF t.track_type = "SUBTITLE"
    THEN <<"s","u","b">> \o Bar \o t.language \o Bar \o OrEmpty(t.title)
             \o Bar \o BoolToStr(t.is_forced)
    ELSE TypeName(t.track_type) \o Bar \o t.codec

--------------------------------------------------------------------------
(* analyzer.py: _find_common_tracks and _detect_missing_tracks             *)

\* the printable ASCII characters in code-point order: 32..95 and 97..126
AsciiLow ==
    <<" ","!","\"","#","$","%","&","'","(",")","*","+",",","-",".","/",
      "0","1","2","3","4","5","6","7","8","9",":",";","<","=",">","?",
      "@","A","B","C","D","E","F","G","H","I","J","K","L","M","N","O",
      "P","Q","R","S","T","U","V","W","X","Y","Z","[","\\","]","^","_">>
AsciiHigh ==
    <<"a","b","c","d","e","f","g","h","i","j","k","l","m","n","o",
      "p","q","r","s","t","u","v","w","x","y","z","{","|","}","~">>

\* ord(c)
CodePoint ==
    [c \in Range(AsciiLow) \cup Range(AsciiHigh) |->
        IF c \in Range(AsciiLow)
        THEN 31 + CHOOSE i \in DOMAIN AsciiLow : AsciiLow[i] = c
        ELSE 96 + CHOOSE i \in DOMAIN AsciiHigh : AsciiHigh[i] = c]

\* a < b for two str: by code point, a proper prefix first
RECURSIVE StrLess(_, _)
StrLess(a, b) ==
    IF b = << >> THEN FALSE
    ELSE IF a = << >> THEN TRUE
    ELSE IF a[1] # b[1] THEN CodePoint[a[1]] < CodePoint[b[1]]
    ELSE StrLess(Tail(a), Tail(b))

\* sorted(keys) for a set of str
RECURSIVE Sorted(_)
Sorted(keys) ==
    IF keys = {} THEN << >>
    ELSE LET least == CHOOSE k \in keys : \A o \in keys \ {k} : StrLess(k, o)
         IN  <<least>> \o Sorted(keys \ {least})

\* {t.identity_key for t in ep.embedded_tracks if t.track_type == track_type}
KeysOfType(ep, track_type) ==
    { identity_key(ep.embedded_tracks[i]) :
        i \in { j \in DOMAIN ep.embedded_tracks :
                  ep.embedded_tracks[j].track_type = track_type } }

\* mutant of IntersectFrom: the keys are united ("common_keys |= ep_keys")
RECURSIVE IntersectFrom_Union(_, _, _, _)
IntersectFrom_Union(episodes, track_type, i, common_keys) ==
    IF i > Len(episodes) THEN common_keys
    ELSE IntersectFrom_Union(episodes, track_type, i + 1,
                             common_keys \cup KeysOfType(episodes[i], track_type))

\* mutant of IntersectFrom: an episode without embedded tracks is passed over
RECURSIVE IntersectFrom_SkipsUnprobed(_, _, _, _)
IntersectFrom_SkipsUnprobed(episodes, track_type, i, common_keys) ==
    IF i > Len(episodes) THEN common_keys
    ELSE IntersectFrom_SkipsUnprobed(episodes, track_type, i + 1,
             IF episodes[i].embedded_tracks = << >> THEN common_keys
             ELSE common_keys \cap KeysOfType(episodes[i], track_type))

\* the loop "for ep in episodes[1:]: common_keys &= ep_keys"
RECURSIVE IntersectFrom(_, _, _, _)
IntersectFrom(episodes, track_type, i, common_keys) ==
    IF i > Len(episodes) THEN common_keys
    ELSE IntersectFrom(episodes, track_type, i + 1,
                       common_keys \cap KeysOfType(episodes[i], track_type))

\* mutant of _find_common_tracks: the keys of the first episode, in the order
\* of its tracks, that the other episodes have too (no sorted())
RECURSIVE InTrackOrder(_, _, _)
InTrackOrder(ep, keys, i) ==
    IF i > Len(ep.embedded_tracks) THEN << >>
    ELSE LET k == identity_key(ep.embedded_tracks[i])
         IN  (IF k \in keys THEN <<k>> ELSE << >>)
                 \o InTrackOrder(ep, keys \ {k}, i + 1)

_find_common_tracks_Unsorted(episodes, track_type) ==
    IF episodes = << >> THEN << >>
    ELSE InTrackOrder(episodes[1],
                      IntersectFrom(episodes, track_type, 2,
                                    KeysOfType(episodes[1], track_type)), 1)

\* mutant of _find_common_tracks: the keys of the first episode, not
\* intersected with those of the others
_find_common_tracks_FirstEpisode(episodes, track_type) ==
    IF episodes = << >> THEN << >>
    ELSE Sorted(KeysOfType(episodes[1], track_type))

_find_common_tracks(episodes, track_type) ==
    IF episodes = << >> THEN << >>
    ELSE Sorted(IntersectFrom(episodes, track_type, 2,
                              KeysOfType(episodes[1], track_type)))

\* set(common_audio)
SetOf(list) == { list[i] : i \in DOMAIN list }

\* the loop over the episodes of _detect_missing_tracks. list(a | b) has no
\* defined order: the value kept for an episode is the set of its elements.
RECURSIVE DetectFrom(_, _, _, _, _)
DetectFrom(episodes, all_audio_keys, all_sub_keys, i, missing) ==
    IF i > Len(episodes) THEN missing
    ELSE LET ep == episodes[i]
             missing_audio == all_audio_keys \ KeysOfType(ep, "AUDIO")
             missing_subs == all_sub_keys \ KeysOfType(ep, "SUBTITLE")
         IN  DetectFrom(episodes, all_audio_keys, all_sub_keys, i + 1,
                 IF missing_audio # {} \/ missing_subs # {}
                 THEN [n \in (DOMAIN missing) \cup {ep.number} |->
                          IF n = ep.number THEN missing_audio \cup missing_subs
                          ELSE missing[n]]
                 ELSE missing)

\* mutant of _detect_missing_tracks: only the audio keys are looked at
_detect_missing_tracks_AudioOnly(episodes, common_audio_arg, common_subs_arg) ==
    DetectFrom(episodes, SetOf(common_audio_arg), {}, 1, EmptyMap)

_detect_missing_tracks(episodes, common_audio_arg, common_subs_arg) ==
    DetectFrom(episodes, SetOf(common_audio_arg), SetOf(common_subs_arg), 1, EmptyMap)

\* get_track_by_identity: the first embedded track with that key, or None
RECURSIVE TrackByIdentityFrom(_, _, _)
TrackByIdentityFrom(episode, key, i) ==
    IF i > Len(episode.embedded_tracks) THEN None
    ELSE IF identity_key(episode.embedded_tracks[i]) = key
         THEN Some(episode.embedded_tracks[i])
         ELSE TrackByIdentityFrom(episode, key, i + 1)

get_track_by_identity(episode, key) == TrackByIdentityFrom(episode, key, 1)

--------------------------------------------------------------------------
(* The inputs of the matcher: bounded lists of paths                       *)

MaxFiles == 2

\* constant digit runs to the left or to the right of the stem
Frames == { << << >>, << >> >>, << <<"7","-">>, << >> >>, << << >>, <<"-","7">> >> }
Nums   == { << >>, <<"0">>, <<"1">>, <<"2">>, <<"0","1">> }

\* file names: a marker or literal stem with an optional digit run, inside a
\* frame; and some irregular ones
NamePool ==
    { f[1] \o <<"S","P">> \o n \o f[2] : f \in Frames, n \in Nums }
    \cup { <<"s","p","2">>, <<"s","p">>, <<"x","S","P">>, <<"x","S","P","2">>,
           <<"S","P","2","x">>, <<"S","P","7","-","1">>, <<"S","P","7","-","2">>,
           <<"O","V","A">>, <<"o","v","a","3">>,
           <<"S","P","E","C","I","A","L">>, <<"S","p","e","c","i","a","l","2">>,
           <<"S","P","1","1">>, <<"S","P","1","2","1">> }

\* the same file name may occur in two directories
PathPool ==
    { [parent |-> "/media", name |-> n] : n \in NamePool }
    \cup { [parent |-> "/media/sub", name |-> n] : n \in { <<"S","P","1">>, <<"S","P">> } }

FileLists == UNION { [1..n -> PathPool] : n \in 0..MaxFiles }

IdentityIdle ==
    /\ trackA = None /\ trackB = None /\ keyA = None /\ keyB = None
    /\ ipc = "idle"

MatcherIdle ==
    /\ files = << >> /\ result = EmptyMap /\ mpc = "idle"

AnalyzerIdle ==
    /\ episode_list = << >> /\ common_audio = << >> /\ common_subs = << >>
    /\ missing_tracks = EmptyMap /\ apc = "idle"

SelectorIdle ==
    /\ audio_selections = << >> /\ subtitle_selections = << >>
    /\ gap_idx = 1
    /\ audio_subs = EmptyMap /\ audio_skipped = << >>
    /\ sub_subs = EmptyMap /\ sub_skipped = << >>
    /\ prompts = << >>
    /\ selection_result = None

WorkflowIdle ==
    /\ external_audio_sources = << >> /\ external_subtitle_sources = << >>
    /\ SelectorIdle
    /\ wpc = "idle" /\ plan = None /\ executed = FALSE /\ exit_code = None
    /\ events = << >> /\ output_dir = None

SeriesIdle ==
    /\ video_files = << >> /\ video_map = << >> /\ failing = {}
    /\ unmatched_external_files = << >>

ExecutorIdle ==
    /\ exec_jobs = << >> /\ overwrite = FALSE /\ verbose = FALSE /\ cpu_count = 1
    /\ num_workers = 1 /\ job_idx = 1 /\ futures = << >>
    /\ successful_count = 0 /\ failed_count = 0 /\ skipped_count = 0
    /\ ffmpeg_runs = {} /\ xpc = "idle"

MatcherInit ==
    /\ files \in FileLists
    /\ result = EmptyMap
    /\ mpc = "start"
    /\ IdentityIdle
    /\ AnalyzerIdle
    /\ WorkflowIdle
    /\ SeriesIdle
    /\ ExecutorIdle

\* a call of extract_episode_numbers(files)
ExtractEpisodeNumbers ==
    /\ mpc = "start"
    /\ result' = extract_episode_numbers(files)
    /\ mpc' = "done"
    /\ UNCHANGED <<files, identityVars, analyzerVars, workflowVars, seriesVars, executorVars>>

MatcherNext == ExtractEpisodeNumbers

SpecMatcher == MatcherInit /\ [][MatcherNext]_vars

--------------------------------------------------------------------------
(* Claims about the matcher                                                *)

NameOf(i) == PathName(files[i])

\* the list with its files in the order p
Permuted(fs, p) == [i \in 1..Len(fs) |-> fs[p[i]]]

\* file i's own digit run, when run k of the first file is the varying one:
\* what stands between the shared left part and the shared right part
OwnRun(k, i) ==
    LET r == NumericParts(NameOf(1))[k]
    IN  Slice(NameOf(i), r.s, Len(NameOf(i)) - (Len(NameOf(1)) - r.e))

\* equal up to letter case
SameIgnoringCase(a, b) ==
    /\ Len(a) = Len(b)
    /\ \A i \in 1..Len(a) : Fold(a[i]) = Fold(b[i])

\* the names are identical, ignoring letter case, except for the maximal
\* digit run that is run k of the first file, and the values of that run are
\* pairwise distinct
SingleRunFamily(k) ==
    LET r == NumericParts(NameOf(1))[k]
        right == Len(NameOf(1)) - r.e
    IN  /\ \A i \in 1..Len(files) :
              /\ Len(NameOf(i)) >= r.s + right
              /\ SameIgnoringCase(Slice(NameOf(i), 1, r.s - 1), Slice(NameOf(1), 1, r.s - 1))
              /\ SameIgnoringCase(Slice(NameOf(i), Len(NameOf(i)) - right + 1, Len(NameOf(i))),
                                  Slice(NameOf(1), r.e + 1, Len(NameOf(1))))
              /\ AllDigits(OwnRun(k, i))
        /\ \A i, j \in 1..Len(files) : i # j => ToInt(OwnRun(k, i)) # ToInt(OwnRun(k, j))

\* C1: for a list of two or more files whose names differ only in one maximal
\* digit run with pairwise distinct values, the result has exactly one entry
\* per file and maps the value of each file's own run to that file; a digit
\* run that is the same in every file is not taken, on either side.
C1_SingleRunFamilyMapped ==
    (mpc = "done" /\ Len(files) >= 2) =>
        \A k \in DOMAIN NumericParts(NameOf(1)) :
            SingleRunFamily(k) =>
                /\ DOMAIN result = { ToInt(OwnRun(k, i)) : i \in 1..Len(files) }
                /\ Cardinality(DOMAIN result) = Len(files)
                /\ \A i \in 1..Len(files) : result[ToInt(OwnRun(k, i))] = files[i]

\* two files with a constant digit run to the right of the varying one (the
\* run the right-to-left scan tries first), one of them numbered 0
C1_Witness ==
    /\ mpc = "done"
    /\ Len(files) = 2
    /\ Len(NumericParts(NameOf(1))) = 2
    /\ SingleRunFamily(1)
    /\ DOMAIN result = {0, 2}

\* C2: the result does not depend on the order of the list: every
\* permutation of the files yields the same mapping.
C2_OrderIndependent ==
    mpc = "done" =>
        \A p \in Permutations(1..Len(files)) :
            extract_episode_numbers(Permuted(files, p)) = result

\* a list with a nonempty result whose two files yield different templates
\* (the first has no digit run at all, the second has one)
C2_Witness ==
    /\ mpc = "done"
    /\ Len(files) = 2
    /\ result # EmptyMap
    /\ NumericParts(NameOf(1)) = << >>
    /\ NumericParts(NameOf(2)) # << >>

\* C3: the result is either empty or has exactly one entry per input file,
\* with the input files as its values; no episode number stands for two
\* files, and a candidate under which two files capture the same integer is
\* rejected.
C3_AllOrNothing ==
    mpc = "done" =>
        \/ result = EmptyMap
        \/ /\ Cardinality(DOMAIN result) = Len(files)
           /\ \A i \in 1..Len(files) : \E n \in DOMAIN result : result[n] = files[i]
           /\ \A n \in DOMAIN result : \E i \in 1..Len(files) : result[n] = files[i]
           /\ \A i, j \in 1..Len(files) : i # j => files[i] # files[j]

\* "01" and "1" next to each other: the only candidate is rejected
C3_Witness ==
    /\ mpc = "done"
    /\ Len(files) = 2
    /\ NameOf(1) = <<"S","P","0","1">>
    /\ NameOf(2) = <<"S","P","1">>
    /\ result = EmptyMap

\* the marker stands at position i of the first name, not inside a longer
\* word, and every name is the first one, ignoring letter case, up to the
\* digits (if any) right after the marker
MarkerFamilyAt(marker, i) ==
    LET T == NameOf(1)
        last == i + Len(marker) - 1
    IN  /\ last <= Len(T)
        /\ SameIgnoringCase(Slice(T, i, last), marker)
        /\ i > 1 => ~IsAlpha(T[i - 1])
        /\ LET e == CHOOSE p \in last..Len(T) :
                        /\ \A q \in (last + 1)..p : IsDigit(T[q])
                        /\ p < Len(T) => ~IsDigit(T[p + 1])
               right == Len(T) - e
           IN  /\ e < Len(T) => ~IsAlpha(T[e + 1])
               /\ \A f \in 1..Len(files) :
                     /\ Len(NameOf(f)) >= last + right
                     /\ SameIgnoringCase(Slice(NameOf(f), 1, last), Slice(T, 1, last))
                     /\ SameIgnoringCase(
                            Slice(NameOf(f), Len(NameOf(f)) - right + 1, Len(NameOf(f))),
                            Slice(T, e + 1, Len(T)))
                     /\ \A q \in (last + 1)..(Len(NameOf(f)) - right) : IsDigit(NameOf(f)[q])

\* the number of file f in such a family: 1 without digits after the marker
MarkerNumber(marker, i, f) ==
    LET T == NameOf(1)
        last == i + Len(marker) - 1
        e == CHOOSE p \in last..Len(T) :
                 /\ \A q \in (last + 1)..p : IsDigit(T[q])
                 /\ p < Len(T) => ~IsDigit(T[p + 1])
        digits == Slice(NameOf(f), last + 1, Len(NameOf(f)) - (Len(T) - e))
    IN  IF digits = << >> THEN 1 ELSE ToInt(digits)

\* a marker family whose numbers are pairwise distinct
DistinctMarkerFamily(marker, i) ==
    /\ MarkerFamilyAt(marker, i)
    /\ \A f, g \in 1..Len(files) :
          f # g => MarkerNumber(marker, i, f) # MarkerNumber(marker, i, g)

Markers == { SPECIAL_EPISODE_PREFIXES[k] : k \in DOMAIN SPECIAL_EPISODE_PREFIXES }

\* C18: when no digit-run candidate validates a list of two or more files,
\* the result is that of the special-marker patterns: if the names form a
\* family around a marker (ignoring case, the marker not part of a longer
\* word) with pairwise distinct numbers, a file without digits after the
\* marker counting as 1 and one with the digits n as n, the result maps these
\* numbers to the files; otherwise, as for the marker alone next to the
\* marker followed by 1, the result is empty.
C18_MarkerFallback ==
    ( /\ mpc = "done"
      /\ Len(files) >= 2
      /\ \A k \in DOMAIN NumericParts(NameOf(1)) : ~SingleRunFamily(k) )
    => /\ \A marker \in Markers : \A i \in 1..Len(NameOf(1)) :
             DistinctMarkerFamily(marker, i) =>
                 /\ DOMAIN result = { MarkerNumber(marker, i, f) : f \in 1..Len(files) }
                 /\ \A f \in 1..Len(files) : result[MarkerNumber(marker, i, f)] = files[f]
       /\ (~\E marker \in Markers : \E i \in 1..Len(NameOf(1)) :
               DistinctMarkerFamily(marker, i))
             => result = EmptyMap
       /\ ( /\ \E f \in 1..Len(files) : NameOf(f) = <<"S","P">>
            /\ \E f \in 1..Len(files) : NameOf(f) = <<"S","P","1">> )
             => result = EmptyMap

\* a lower-case marker with a number first, then the bare marker: the digit
\* run of the first name does not validate, the marker pattern does
C18_Witness ==
    /\ mpc = "done"
    /\ Len(files) = 2
    /\ NameOf(1) = <<"s","p","2">>
    /\ NameOf(2) = <<"S","P">>
    /\ result = (2 :> files[1]) @@ (1 :> files[2])

\* C19: the result for the empty list is the empty mapping, and the result
\* for a list of one file is {1: that file}, whatever digits or markers its
\* name holds.
C19_EmptyAndLoneFile ==
    mpc = "done" =>
        /\ files = << >> => result = EmptyMap
        /\ Len(files) = 1 => result = (1 :> files[1])

\* a lone file whose name holds a marker numbered 2 and another digit run
C19_Witness ==
    /\ mpc = "done"
    /\ Len(files) = 1
    /\ NameOf(1) = <<"7","-","S","P","2">>
    /\ result = (1 :> files[1])

\* the scan of the digit runs in the other direction, first run first
RECURSIVE TryRunsForward(_, _, _)
TryRunsForward(fs, numeric_parts, k) ==
    IF k > Len(numeric_parts) THEN EmptyMap
    ELSE LET template_name == PathName(fs[1])
             prefix == Slice(template_name, 1, numeric_parts[k].s - 1)
             suffix == Slice(template_name, numeric_parts[k].e + 1, Len(template_name))
             m == Candidate(fs, prefix, suffix, 1)
         IN  IF m # EmptyMap THEN m ELSE TryRunsForward(fs, numeric_parts, k + 1)

\* extract_episode_numbers with its loop over numeric_parts not reversed
extract_episode_numbers_LeftToRight(fs) ==
    IF fs = << >> THEN EmptyMap
    ELSE IF Len(fs) = 1 THEN (1 :> fs[1])
    ELSE LET numeric_parts == NumericParts(PathName(fs[1]))
             m == TryRunsForward(fs, numeric_parts, 1)
         IN  IF m # EmptyMap THEN m ELSE _try_prefixed_pattern(fs)

\* the digit runs of the first file name whose pattern matches every file
\* with pairwise distinct numbers
ValidRuns ==
    LET template_name == NameOf(1)
        numeric_parts == NumericParts(template_name)
    IN  { k \in DOMAIN numeric_parts :
            Candidate(files,
                      Slice(template_name, 1, numeric_parts[k].s - 1),
                      Slice(template_name, numeric_parts[k].e + 1, Len(template_name)),
                      1) # EmptyMap }

\* C25: for a list of two or more files at most one maximal digit run of the
\* first file name yields a pattern that matches every file with pairwise
\* distinct numbers, and scanning the runs left to right gives the mapping
\* the right-to-left scan of the code gives.
C25_ScanDirectionIrrelevant ==
    (mpc = "done" /\ Len(files) >= 2) =>
        /\ Cardinality(ValidRuns) <= 1
        /\ result = extract_episode_numbers_LeftToRight(files)

\* two files whose first digit run is the same and whose second run varies:
\* the left-to-right scan meets a rejected run before the accepted one
C25_Witness ==
    /\ mpc = "done"
    /\ Len(files) = 2
    /\ Len(NumericParts(NameOf(1))) = 2
    /\ ValidRuns = {2}
    /\ DOMAIN result = {1, 2}

--------------------------------------------------------------------------
(* The inputs of the identity model: two tracks                            *)

MaxIndex == 1

TrackTypes == {"VIDEO", "AUDIO", "SUBTITLE", "ATTACHMENT"}
Languages  == { <<"a">>, <<"a","|","b">>, <<"j">> }
Titles     == { None, Some(<< >>), Some(<<"c">>), Some(<<"b","|","c">>) }
Channels   == { None, Some(0), Some(2), Some(16) }
Codecs     == { <<"a","a","c">>, <<"a","s","s">> }
SourceFiles == { "/v/ep01.mkv", "/v/ep02.mkv" }

\* the attributes the identity is computed from, on a fixed provenance
BaseTracks ==
    { [index |-> 0, track_type |-> k, codec |-> <<"a","a","c">>, language |-> l,
       title |-> t, source |-> "EMBEDDED", source_file |-> "/v/ep01.mkv",
       channels |-> c, is_forced |-> f, is_default |-> FALSE] :
        k \in TrackTypes, l \in Languages, t \in Titles,
        c \in Channels, f \in BOOLEAN }

\* the same tracks with one attribute of the provenance changed
Variants(t) ==
    { t }
    \cup { [t EXCEPT !.index = i] : i \in 0..MaxIndex }
    \cup { [t EXCEPT !.source_file = sf] : sf \in SourceFiles }
    \cup { [t EXCEPT !.codec = cd] : cd \in Codecs }
    \cup { [t EXCEPT !.source = "EXTERNAL"], [t EXCEPT !.is_default = TRUE] }

IdentityInit ==
    /\ trackA \in BaseTracks
    /\ trackB \in UNION { Variants(t) : t \in { b \in BaseTracks : b.track_type = trackA.track_type } }
    /\ keyA = None /\ keyB = None
    /\ ipc = "start"
    /\ MatcherIdle
    /\ AnalyzerIdle
    /\ WorkflowIdle
    /\ SeriesIdle
    /\ ExecutorIdle

\* reading the identity_key property of both tracks
ComputeIdentity ==
    /\ ipc = "start"
    /\ keyA' = identity_key(trackA)
    /\ keyB' = identity_key(trackB)
    /\ ipc' = "done"
    /\ UNCHANGED <<trackA, trackB, matcherVars, analyzerVars, workflowVars, seriesVars, executorVars>>

IdentityNext == ComputeIdentity

SpecIdentity == IdentityInit /\ [][IdentityNext]_vars

--------------------------------------------------------------------------
(* Claims about the identity key                                           *)

\* the two tracks agree on everything but (possibly) index and owning file
DifferOnlyInIndexOrFile ==
    [trackA EXCEPT !.index = 0, !.source_file = ""] =
        [trackB EXCEPT !.index = 0, !.source_file = ""]

BothOfType(k) == trackA.track_type = k /\ trackB.track_type = k

HasBar(str) == \E i \in DOMAIN str : str[i] = "|"

\* the title with an absent title read as the empty one, and the channel
\* count with an absent count read as 0
TitleText(t) == IF t.title = None THEN << >> ELSE t.title[1]
ChannelCount(t) == IF t.channels = None THEN 0 ELSE t.channels[1]

\* C10 as stated: tracks that differ only in index or owning file have equal
\* keys, and two audio (subtitle) tracks that differ in language, title or
\* channel count (forced flag) have different keys, for all values, an absent
\* title versus an empty one, an absent channel count versus 0 and values
\* containing the separator included.
C10_AsStated ==
    ipc = "done" =>
        /\ DifferOnlyInIndexOrFile => keyA = keyB
        /\ ( /\ BothOfType("AUDIO") \/ BothOfType("SUBTITLE")
             /\ \/ trackA.language # trackB.language
                \/ trackA.title # trackB.title
                \/ BothOfType("AUDIO") /\ trackA.channels # trackB.channels
                \/ BothOfType("SUBTITLE") /\ trackA.is_forced # trackB.is_forced )
           => keyA # keyB

\* C10, amended: tracks that differ only in index or owning file have equal
\* keys; two audio tracks whose channel counts differ (absent read as 0) and
\* two subtitle tracks whose forced flags differ have different keys; and two
\* audio or two subtitle tracks whose languages differ, or whose titles
\* differ (absent read as empty), have different keys provided neither
\* language contains the separator.
C10_IdentityDistinguishes ==
    ipc = "done" =>
        /\ DifferOnlyInIndexOrFile => keyA = keyB
        /\ (BothOfType("AUDIO") /\ ChannelCount(trackA) # ChannelCount(trackB))
               => keyA # keyB
        /\ (BothOfType("SUBTITLE") /\ trackA.is_forced # trackB.is_forced)
               => keyA # keyB
        /\ ( /\ BothOfType("AUDIO") \/ BothOfType("SUBTITLE")
             /\ ~HasBar(trackA.language) /\ ~HasBar(trackB.language)
             /\ \/ trackA.language # trackB.language
                \/ TitleText(trackA) # TitleText(trackB) )
           => keyA # keyB

\* two audio tracks in the same language, one untitled and one whose title
\* contains the separator, told apart by their keys
C10_Witness ==
    /\ ipc = "done"
    /\ BothOfType("AUDIO")
    /\ trackA.language = <<"j">> /\ trackB.language = <<"j">>
    /\ trackA.title = None /\ trackB.title = Some(<<"b","|","c">>)
    /\ trackA.channels = trackB.channels
    /\ keyA # keyB

\* the two tracks agree on kind, language and title, and on the channel
\* count when they are audio tracks, on the forced flag when they are
\* subtitle tracks
AgreeOnIdentityAttributes ==
    /\ trackA.track_type = trackB.track_type
    /\ trackA.language = trackB.language
    /\ trackA.title = trackB.title
    /\ trackA.track_type = "AUDIO" => trackA.channels = trackB.channels
    /\ trackA.track_type = "SUBTITLE" => trackA.is_forced = trackB.is_forced

--------------------------------------------------------------------------
(* The inputs of the analyzer: episodes with their embedded tracks          *)

MaxEpisodes == 3

\* Path of the video of episode n
VideoFile(n) == [parent |-> "/v", name |-> <<"e","p">> \o IntToStr(n)]

VideoTrack ==
    [index |-> 0, track_type |-> "VIDEO", codec |-> <<"h","2","6","4">>,
     language |-> <<"u","n","d">>, title |-> None, source |-> "EMBEDDED",
     source_file |-> VideoFile(1), channels |-> None, is_forced |-> FALSE,
     is_default |-> TRUE]

AudioTrack(lang) ==
    [index |-> 0, track_type |-> "AUDIO", codec |-> <<"a","a","c">>,
     language |-> lang, title |-> None, source |-> "EMBEDDED",
     source_file |-> VideoFile(1), channels |-> Some(2), is_forced |-> FALSE,
     is_default |-> FALSE]

SubTrack(lang) ==
    [index |-> 0, track_type |-> "SUBTITLE", codec |-> <<"a","s","s">>,
     language |-> lang, title |-> None, source |-> "EMBEDDED",
     source_file |-> VideoFile(1), channels |-> None, is_forced |-> FALSE,
     is_default |-> FALSE]

\* the streams a file may hold besides its video stream, in stream order
TrackPool == << AudioTrack(<<"j">>), AudioTrack(<<"e">>), SubTrack(<<"e">>) >>

\* an audio stream only some files hold
RareTrack == AudioTrack(<<"r">>)

\* the streams of TrackPool picked by a set of positions, in stream order
RECURSIVE Pick(_, _)
Pick(picked, i) ==
    IF i > Len(TrackPool) THEN << >>
    ELSE (IF i \in picked THEN <<TrackPool[i]>> ELSE << >>) \o Pick(picked, i + 1)

\* what parse_tracks may return for a file: the video stream, then any of
\* the pool; a file with the rare stream; a file with the same stream twice
TrackLists ==
    { <<VideoTrack>> \o Pick(picked, 1) : picked \in SUBSET (1..Len(TrackPool)) }
    \cup { <<VideoTrack, TrackPool[1], RareTrack>>,
           <<VideoTrack, TrackPool[1], TrackPool[1]>>,
           <<VideoTrack, TrackPool[1], TrackPool[1], TrackPool[2]>> }

\* Episode(number=n, video_file=..., embedded_tracks=tracks)
Episode(n, tracks) ==
    [number |-> n,
     video_file |-> VideoFile(n),
     embedded_tracks |->
        [i \in DOMAIN tracks |->
            [tracks[i] EXCEPT !.index = i - 1, !.source_file = VideoFile(n)]],
     external_audio |-> EmptyMap,
     external_subs |-> EmptyMap]

\* the episodes of a series of k files, numbered 1..k
Episodes(tl) == [n \in DOMAIN tl |-> Episode(n, tl[n])]

AnalyzerInit ==
    /\ \E k \in 0..MaxEpisodes : \E tl \in [1..k -> TrackLists] :
          episode_list = Episodes(tl)
    /\ common_audio = << >> /\ common_subs = << >>
    /\ missing_tracks = EmptyMap
    /\ apc = "start"
    /\ MatcherIdle
    /\ IdentityIdle
    /\ WorkflowIdle
    /\ SeriesIdle
    /\ ExecutorIdle

\* analyze_series, step 6
FindCommonTracks ==
    /\ apc = "start"
    /\ common_audio' = _find_common_tracks(episode_list, "AUDIO")
    /\ common_subs' = _find_common_tracks(episode_list, "SUBTITLE")
    /\ apc' = "common"
    /\ UNCHANGED <<episode_list, missing_tracks, matcherVars, identityVars, workflowVars, seriesVars, executorVars>>

\* analyze_series, step 7
DetectMissingTracks ==
    /\ apc = "common"
    /\ missing_tracks' = _detect_missing_tracks(episode_list, common_audio, common_subs)
    /\ apc' = "done"
    /\ UNCHANGED <<episode_list, common_audio, common_subs, matcherVars, identityVars,
                   workflowVars, seriesVars, executorVars>>

AnalyzerNext == FindCommonTracks \/ DetectMissingTracks

SpecAnalyzer == AnalyzerInit /\ [][AnalyzerNext]_vars

--------------------------------------------------------------------------
(* Claims about the analyzer                                               *)

\* the identity keys of the audio streams of the pool
KeyJ == identity_key(AudioTrack(<<"j">>))
KeyE == identity_key(AudioTrack(<<"e">>))
KeyR == identity_key(AudioTrack(<<"r">>))

\* three episodes whose embedded audio identities are {A,B}, {A,B}, {A,C}
ScenarioABC(A, B, C) ==
    /\ Len(episode_list) = 3
    /\ KeysOfType(episode_list[1], "AUDIO") = {A, B}
    /\ KeysOfType(episode_list[2], "AUDIO") = {A, B}
    /\ KeysOfType(episode_list[3], "AUDIO") = {A, C}

\* the identity keys of a kind that occur in every episode
InEveryEpisode(kind) ==
    { k \in UNION { KeysOfType(episode_list[i], kind) : i \in DOMAIN episode_list } :
        \A i \in DOMAIN episode_list : k \in KeysOfType(episode_list[i], kind) }

StrictlyAscending(list) ==
    \A i, j \in DOMAIN list : i < j => StrLess(list[i], list[j])

CommonAsSpecified(list, kind) ==
    /\ SetOf(list) = InEveryEpisode(kind)
    /\ StrictlyAscending(list)
    /\ \A p \in Permutations(DOMAIN episode_list) :
          _find_common_tracks(Permuted(episode_list, p), kind) = list

\* C4: _find_common_tracks returns exactly the identity keys of the kind that
\* occur in every episode, as a strictly ascending (sorted, duplicate-free)
\* list, the same for every order of the episodes; the empty list for no
\* episodes; and [A] for the audio identity sets {A,B}, {A,B}, {A,C}.
C4_CommonIsSortedIntersection ==
    apc \in {"common", "done"} =>
        /\ CommonAsSpecified(common_audio, "AUDIO")
        /\ CommonAsSpecified(common_subs, "SUBTITLE")
        /\ episode_list = << >> => (common_audio = << >> /\ common_subs = << >>)
        /\ \A A, B, C \in {KeyJ, KeyE, KeyR} :
              (A # B /\ A # C /\ B # C /\ ScenarioABC(A, B, C)) => common_audio = <<A>>

C4_Witness ==
    /\ apc = "common"
    /\ ScenarioABC(KeyJ, KeyE, KeyR)
    /\ common_audio = <<KeyJ>>

\* every identity key of any kind an episode holds
AllKeys(ep) == { identity_key(ep.embedded_tracks[i]) : i \in DOMAIN ep.embedded_tracks }

\* the sorted lists of identity keys of a kind the detection may be given
CommonArgs(kind) ==
    { Sorted(q) :
        q \in SUBSET { identity_key(t) :
                         t \in { u \in SetOf(TrackPool) \cup {RareTrack} :
                                   u.track_type = kind } } }

\* the detection reports, per episode number, the keys of the combined given
\* sets the episode lacks, and only the episodes that lack one
DetectAsSpecified(ca, cs) ==
    LET m == _detect_missing_tracks(episode_list, ca, cs)
        lacks(ep) == (SetOf(ca) \cup SetOf(cs)) \ AllKeys(ep)
    IN  /\ DOMAIN m = { episode_list[i].number :
                          i \in { j \in DOMAIN episode_list : lacks(episode_list[j]) # {} } }
        /\ \A i \in DOMAIN episode_list :
              lacks(episode_list[i]) # {} =>
                  m[episode_list[i].number] = lacks(episode_list[i])

DetectInGeneral ==
    \A ca \in CommonArgs("AUDIO"), cs \in CommonArgs("SUBTITLE") : DetectAsSpecified(ca, cs)

\* C5 as stated: on {A,B}, {A,B}, {A,C}, the detection run on the common sets
\* the analyzer computed flags only the third episode, with {B}.
C5_AsStated ==
    apc = "done" =>
        /\ DetectInGeneral
        /\ \A A, B, C \in {KeyJ, KeyE, KeyR} :
              (A # B /\ A # C /\ B # C /\ ScenarioABC(A, B, C)) =>
                  missing_tracks = (3 :> {B})

\* C5: for every episode the detection reports the identities of the combined
\* given common-audio and common-subtitle sets the episode lacks, listing
\* only episodes that lack one; on {A,B}, {A,B}, {A,C} it flags only the third
\* episode with {B} when given the common audio set {A,B}, and no episode when
\* run on the common sets the analyzer computed for that input.
C5_DetectsMissing ==
    apc = "done" =>
        /\ DetectInGeneral
        /\ \A A, B, C \in {KeyJ, KeyE, KeyR} :
              (A # B /\ A # C /\ B # C /\ ScenarioABC(A, B, C)) =>
                  /\ missing_tracks = EmptyMap
                  /\ _detect_missing_tracks(episode_list, Sorted({A, B}), common_subs)
                        = (3 :> {B})

C5_Witness ==
    /\ apc = "done"
    /\ ScenarioABC(KeyJ, KeyE, KeyR)
    /\ common_audio = <<KeyJ>>
    /\ missing_tracks = EmptyMap
    /\ DOMAIN _detect_missing_tracks(episode_list, <<KeyE, KeyJ>>, common_subs) = {3}

--------------------------------------------------------------------------
(* selector.py: display_analysis, select_tracks and _handle_gaps           *)

\* the values of the two fixed entries of a gap prompt
SkipValue  == <<"s","k","i","p">>
AbortValue == <<"a","b","o","r","t">>

\* TrackSelection(identifier, is_embedded); the display name is left out
TrackSelection(identifier, is_embedded) ==
    [identifier |-> identifier, is_embedded |-> is_embedded]

\* the options display_analysis builds for one kind: the common embedded
\* identities, then the external sources in dict order
Options(common_keys, sources) ==
    [i \in DOMAIN common_keys |-> TrackSelection(common_keys[i], TRUE)]
    \o [i \in DOMAIN sources |-> TrackSelection(sources[i].name, FALSE)]

\* display_analysis, the Coverage column of the row of an external source:
\* "all" if ep_count == total_eps else f"{ep_count}/{total_eps}"
CoverageColumn(source, episodes) ==
    LET ep_count == Cardinality(DOMAIN source.files)
        total_eps == Len(episodes)
    IN  IF ep_count = total_eps THEN <<"a","l","l">>
        ELSE IntToStr(ep_count) \o <<"/">> \o IntToStr(total_eps)

\* the options picked by a set of checked indices, in the order of the list
RECURSIVE Checked(_, _, _)
Checked(options, indices, i) ==
    IF i > Len(options) THEN << >>
    ELSE (IF i \in indices THEN <<options[i]>> ELSE << >>)
             \o Checked(options, indices, i + 1)

\* set(analysis.episodes.keys())
EpisodeNumbers(episodes) == { episodes[i].number : i \in DOMAIN episodes }

\* sources.get(name)
SourceGet(sources, name) ==
    LET hits == { i \in DOMAIN sources : sources[i].name = name }
    IN  IF hits = {} THEN None ELSE Some(sources[CHOOSE i \in hits : TRUE])

\* mutant of SortedInts: the greatest number first
RECURSIVE SortedInts_Descending(_)
SortedInts_Descending(numbers) ==
    IF numbers = {} THEN << >>
    ELSE LET greatest == CHOOSE n \in numbers : \A o \in numbers : n >= o
         IN  <<greatest>> \o SortedInts_Descending(numbers \ {greatest})

\* sorted(missing) for a set of int
RECURSIVE SortedInts(_)
SortedInts(numbers) ==
    IF numbers = {} THEN << >>
    ELSE LET least == CHOOSE n \in numbers : \A o \in numbers : n <= o
         IN  <<least>> \o SortedInts(numbers \ {least})

\* all_episodes - source_episodes for one selection; nothing for an embedded
\* selection or an unknown source
Missing(episodes, sources, selection) ==
    IF selection.is_embedded THEN {}
    ELSE LET source == SourceGet(sources, selection.identifier)
         IN  IF source = None THEN {}
             ELSE EpisodeNumbers(episodes) \ DOMAIN source[1].files

\* mutant of Gaps: only the first missing episode of a selection is visited
RECURSIVE Gaps_FirstOnly(_, _, _, _)
Gaps_FirstOnly(episodes, sources, selections, i) ==
    IF i > Len(selections) THEN << >>
    ELSE LET missing == SortedInts(Missing(episodes, sources, selections[i]))
         IN  (IF missing = << >> THEN << >>
              ELSE <<[selection |-> selections[i], ep_num |-> missing[1]]>>)
                 \o Gaps_FirstOnly(episodes, sources, selections, i + 1)

\* the (selection, ep_num) pairs the two nested loops of _handle_gaps visit,
\* in the order they visit them
RECURSIVE Gaps(_, _, _, _)
Gaps(episodes, sources, selections, i) ==
    IF i > Len(selections) THEN << >>
    ELSE LET missing == SortedInts(Missing(episodes, sources, selections[i]))
         IN  [j \in DOMAIN missing |-> [selection |-> selections[i], ep_num |-> missing[j]]]
                 \o Gaps(episodes, sources, selections, i + 1)

\* [name for name, src in sources.items()
\*  if name != selection.identifier and ep_num in src.files]
RECURSIVE Alternatives(_, _, _, _)
Alternatives(sources, identifier, ep_num, i) ==
    IF i > Len(sources) THEN << >>
    ELSE (IF sources[i].name # identifier /\ ep_num \in DOMAIN sources[i].files
          THEN <<sources[i].name>> ELSE << >>)
             \o Alternatives(sources, identifier, ep_num, i + 1)

\* the values of the entries of a gap prompt, top to bottom
Choices(alternatives) ==
    IF alternatives # << >>
    THEN alternatives \o <<SkipValue, AbortValue>>
    ELSE <<SkipValue, AbortValue>>

\* substitutions[ep_num] = choice
DictSet(dict, key, value) ==
    [k \in (DOMAIN dict) \cup {key} |-> IF k = key THEN value ELSE dict[k]]

\* the orders list(set(...)) may give the elements of a set
ListsOf(elements) ==
    { l \in [1..Cardinality(elements) -> elements] :
        \A i, j \in DOMAIN l : i # j => l[i] # l[j] }

--------------------------------------------------------------------------
(* planner.py: build_merge_plan                                            *)

\* mutant of _get_video_track: the first embedded track, whatever its type
_get_video_track_AnyTrack(episode) ==
    IF episode.embedded_tracks = << >> THEN None
    ELSE Some(episode.embedded_tracks[1])

\* the first embedded VIDEO track, or None
_get_video_track(episode) ==
    LET hits == { i \in DOMAIN episode.embedded_tracks :
                    episode.embedded_tracks[i].track_type = "VIDEO" }
    IN  IF hits = {} THEN None
        ELSE Some(episode.embedded_tracks[CHOOSE i \in hits : \A j \in hits : i <= j])

\* mutant of ResolveFrom: the substitutions are not looked at
RECURSIVE ResolveFrom_NoSubstitution(_, _, _, _, _)
ResolveFrom_NoSubstitution(episode, selections, substitutions, external, i) ==
    IF i > Len(selections) THEN << >>
    ELSE LET sel == selections[i]
             track == get_track_by_identity(episode, sel.identifier)
         IN  (IF sel.is_embedded
              THEN (IF track # None THEN <<track[1]>> ELSE << >>)
              ELSE (IF sel.identifier \in DOMAIN external
                    THEN <<external[sel.identifier]>> ELSE << >>))
                 \o ResolveFrom_NoSubstitution(episode, selections, substitutions,
                                               external, i + 1)

\* the loop of _resolve_audio_tracks / _resolve_subtitle_tracks over the
\* selections of the kind; external is the episode's dict of that kind
RECURSIVE ResolveFrom(_, _, _, _, _)
ResolveFrom(episode, selections, substitutions, external, i) ==
    IF i > Len(selections) THEN << >>
    ELSE LET sel == selections[i]
             track == get_track_by_identity(episode, sel.identifier)
             source_name == IF episode.number \in DOMAIN substitutions
                            THEN substitutions[episode.number]
                            ELSE sel.identifier
         IN  (IF sel.is_embedded
              THEN (IF track # None THEN <<track[1]>> ELSE << >>)
              ELSE (IF source_name \in DOMAIN external
                    THEN <<external[source_name]>> ELSE << >>))
                 \o ResolveFrom(episode, selections, substitutions, external, i + 1)

_resolve_audio_tracks(episode, sr) ==
    ResolveFrom(episode, sr.audio_selections, sr.audio_substitutions,
                episode.external_audio, 1)

_resolve_subtitle_tracks(episode, sr) ==
    ResolveFrom(episode, sr.subtitle_selections, sr.subtitle_substitutions,
                episode.external_subs, 1)

\* ep_num in skipped
InList(x, list) == \E i \in DOMAIN list : list[i] = x

\* sorted(analysis.episodes.items()): the episodes by ascending number
SortedItems(episodes) ==
    LET numbers == SortedInts(EpisodeNumbers(episodes))
    IN  [i \in DOMAIN numbers |->
            episodes[CHOOSE j \in DOMAIN episodes : episodes[j].number = numbers[i]]]

MergeJob(episode, video_track, sr, out) ==
    [episode |-> episode,
     output_path |-> [parent |-> out, name |-> episode.video_file.name],
     video_tracks |-> <<video_track>>,
     audio_tracks |-> _resolve_audio_tracks(episode, sr),
     subtitle_tracks |-> _resolve_subtitle_tracks(episode, sr),
     preserve_attachments |-> TRUE]

\* the loop of build_merge_plan over the sorted episodes
RECURSIVE PlanFrom(_, _, _, _, _, _)
PlanFrom(items, sr, i, jobs, skipped, out) ==
    IF i > Len(items)
    THEN [jobs |-> jobs, output_directory |-> out, skipped_episodes |-> skipped]
    ELSE LET episode == items[i]
             video_track == _get_video_track(episode)
         IN  IF InList(episode.number, skipped)
             THEN PlanFrom(items, sr, i + 1, jobs, skipped, out)
             ELSE IF video_track = None
             THEN PlanFrom(items, sr, i + 1, jobs, Append(skipped, episode.number), out)
             ELSE PlanFrom(items, sr, i + 1,
                           Append(jobs, MergeJob(episode, video_track[1], sr, out)),
                           skipped, out)

build_merge_plan(episodes, sr, out) ==
    PlanFrom(SortedItems(episodes), sr, 1, << >>, sr.skipped_episodes, out)

--------------------------------------------------------------------------
(* The inputs of the workflow: an analysed series with external sources     *)

\* names of source directories; a directory may be called skip or abort
Dub == <<"d","u","b">>
Alt == <<"a","l","t">>
NameLists == { << >>, <<Dub>>, <<Dub, Alt>>, <<SkipValue, Dub>> }

\* the episodes of a series of k files a source directory may hold files for:
\* all of them, all but the last, only the last
Coverage(k) == { 1..k, {k} } \cup (IF k > 1 THEN { 1..(k - 1) } ELSE {})

ExternalFile(name, n) == [parent |-> "/ext", name |-> name \o <<"-">> \o IntToStr(n)]

ExternalSource(name, source_type, episodes) ==
    [name |-> name, source_type |-> source_type,
     files |-> [n \in episodes |-> ExternalFile(name, n)]]

SourceLists(source_type, k) ==
    UNION { { [i \in DOMAIN names |-> ExternalSource(names[i], source_type, cov[i])] :
                cov \in [DOMAIN names -> Coverage(k)] } : names \in NameLists }

\* no source directory, or one that lacks the last episode
FewSources(source_type, k) ==
    { << >>, <<ExternalSource(Dub, source_type, 1..(k - 1))>> }

\* the Track probe_external_file returns for a file of a source
ExternalTrack(track_type, file_path) ==
    [index |-> 0, track_type |-> track_type,
     codec |-> IF track_type = "AUDIO" THEN <<"a","a","c">> ELSE <<"a","s","s">>,
     language |-> <<"u","n","d">>, title |-> None, source |-> "EXTERNAL",
     source_file |-> file_path,
     channels |-> IF track_type = "AUDIO" THEN Some(2) ELSE None,
     is_forced |-> FALSE, is_default |-> FALSE]

\* analyze_series, step 5, for one episode and the sources of one kind
Attached(number, sources, track_type) ==
    [name \in { sources[i].name :
                  i \in { j \in DOMAIN sources : number \in DOMAIN sources[j].files } } |->
        ExternalTrack(track_type, SourceGet(sources, name)[1].files[number])]

AttachExternal(episodes, audio, subs) ==
    [i \in DOMAIN episodes |->
        [episodes[i] EXCEPT
            !.external_audio = Attached(episodes[i].number, audio, "AUDIO"),
            !.external_subs = Attached(episodes[i].number, subs, "SUBTITLE")]]

\* a file as it usually is: video, one audio stream, one subtitle stream
UsualTracks == <<VideoTrack, TrackPool[1], TrackPool[3]>>

\* a file ffprobe fails on, and a file without a video stream
UnusualTracks == { << >>, <<TrackPool[1], TrackPool[3]>> }

\* the track lists of a series of k files, at most one of them unusual
SeriesTrackLists(k) ==
    { [n \in 1..k |-> UsualTracks] }
    \cup { [n \in 1..k |-> IF n = odd THEN tracks ELSE UsualTracks] :
             odd \in 1..k, tracks \in UnusualTracks }

\* the directory the outputs are written to when --output is given
OutputDir == "/out"

\* directory listings analyze_series returns None for: no video file, and
\* video files whose names show no episode pattern
Listings ==
    { << >>,
      << [parent |-> "/v", name |-> <<"a">>], [parent |-> "/v", name |-> <<"b">>] >> }

\* analyze_series is about to return an AnalysisResult
HasAnalysis ==
    /\ \E k \in 1..MaxEpisodes : \E tl \in SeriesTrackLists(k) :
       \E audio \in SourceLists("AUDIO", k), subs \in SourceLists("SUBTITLE", k) :
          /\ \/ audio \in FewSources("AUDIO", k)
             \/ subs \in FewSources("SUBTITLE", k)
          /\ episode_list = AttachExternal(Episodes(tl), audio, subs)
          /\ external_audio_sources = audio
          /\ external_subtitle_sources = subs
    /\ common_audio = _find_common_tracks(episode_list, "AUDIO")
    /\ common_subs = _find_common_tracks(episode_list, "SUBTITLE")
    /\ missing_tracks = _detect_missing_tracks(episode_list, common_audio, common_subs)
    /\ apc = "done"
    /\ SeriesIdle

\* analyze_series is about to return None (analyzer.py 92-95, 100-105)
NoAnalysis ==
    /\ video_files \in Listings
    /\ video_files = << >> \/ extract_episode_numbers(video_files) = EmptyMap
    /\ video_map = << >> /\ failing = {} /\ unmatched_external_files = << >>
    /\ episode_list = << >> /\ common_audio = << >> /\ common_subs = << >>
    /\ missing_tracks = EmptyMap
    /\ external_audio_sources = << >> /\ external_subtitle_sources = << >>
    /\ apc = "none"

\* the start of _run, with what analyze_series is going to find
WorkflowInit ==
    /\ HasAnalysis \/ NoAnalysis
    /\ SelectorIdle
    /\ wpc = "start" /\ plan = None /\ executed = FALSE /\ exit_code = None
    /\ events = << >> /\ output_dir = OutputDir
    /\ MatcherIdle
    /\ IdentityIdle
    /\ ExecutorIdle

--------------------------------------------------------------------------
(* cli.py: _run and main, with select_tracks stepping from prompt to prompt *)

otherVars == <<matcherVars, identityVars, analyzerVars, seriesVars, optionVars,
               executorVars>>

audio_options == Options(common_audio, external_audio_sources)
sub_options == Options(common_subs, external_subtitle_sources)

\* the arguments of the running _handle_gaps call
GapKind == IF wpc = "audio_gaps" THEN "audio" ELSE "subtitle"
GapSources == IF wpc = "audio_gaps" THEN external_audio_sources
              ELSE external_subtitle_sources
GapSelections == IF wpc = "audio_gaps" THEN audio_selections ELSE subtitle_selections
PendingGaps == Gaps(episode_list, GapSources, GapSelections, 1)

\* sys.exit(code)
Exit(code) == wpc' = "exit" /\ exit_code' = Some(code) /\ UNCHANGED events

\* the step got done and _run goes on at the next statement
Goes(next, event) ==
    wpc' = next /\ events' = Append(events, event) /\ UNCHANGED exit_code

\* analyze_series has returned
AnalysisReturned == apc \in {"done", "none"}

\* _run up to the return of analyze_series: ffprobe may be missing, and the
\* analysis may have no result
StartRun ==
    /\ wpc = "start"
    /\ AnalysisReturned
    /\ \E ffprobe_found \in BOOLEAN :
          IF ~ffprobe_found THEN Exit(1)
          ELSE IF apc = "none" THEN Exit(1)
          ELSE Goes("analyzed", "analysis")
    /\ UNCHANGED <<sourceVars, selectorVars, plan, executed, otherVars>>

\* _run from the return of analyze_series to the first checkbox
DisplayAnalysis ==
    /\ wpc = "analyzed"
    /\ IF common_audio = << >> /\ external_audio_sources = << >>
       THEN Exit(1)
       ELSE IF audio_options = << >>
       THEN Exit(1)
       ELSE Goes("select_audio", "audio_options")
    /\ UNCHANGED <<sourceVars, selectorVars, plan, executed, otherVars>>

\* the audio checkbox: at least one entry is checked
SelectAudio ==
    /\ wpc = "select_audio"
    /\ \E checked \in (SUBSET DOMAIN audio_options) \ {{}} :
          audio_selections' = Checked(audio_options, checked, 1)
    /\ wpc' = "select_subs"
    /\ UNCHANGED <<sourceVars, subtitle_selections, gap_idx, audio_subs, audio_skipped,
                   sub_subs, sub_skipped, prompts, selection_result,
                   plan, executed, exit_code, events, otherVars>>

\* the subtitle checkbox, shown if there are options; select_tracks then
\* calls _handle_gaps for the audio selections
SelectSubtitles ==
    /\ wpc = "select_subs"
    /\ IF sub_options # << >>
       THEN \E checked \in SUBSET DOMAIN sub_options :
               subtitle_selections' = Checked(sub_options, checked, 1)
       ELSE subtitle_selections' = << >>
    /\ wpc' = "audio_gaps"
    /\ gap_idx' = 1
    /\ UNCHANGED <<sourceVars, audio_selections, audio_subs, audio_skipped,
                   sub_subs, sub_skipped, prompts, selection_result,
                   plan, executed, exit_code, events, otherVars>>

\* one prompt of _handle_gaps: the operator picks an entry, the code acts on
\* the value of the entry
AnswerGap ==
    /\ wpc \in {"audio_gaps", "subtitle_gaps"}
    /\ gap_idx <= Len(PendingGaps)
    /\ LET gap == PendingGaps[gap_idx]
           alternatives == Alternatives(GapSources, gap.selection.identifier, gap.ep_num, 1)
           choices == Choices(alternatives)
       IN  \E picked \in DOMAIN choices :
             LET choice == choices[picked]
                 substituted == choice # SkipValue /\ choice # AbortValue
             IN  /\ prompts' = Append(prompts,
                        [track_type |-> GapKind, identifier |-> gap.selection.identifier,
                         ep_num |-> gap.ep_num, alternatives |-> alternatives,
                         picked |-> picked, choice |-> choice])
                 /\ IF choice = SkipValue
                    THEN /\ audio_skipped' = IF GapKind = "audio"
                                             THEN Append(audio_skipped, gap.ep_num)
                                             ELSE audio_skipped
                         /\ sub_skipped' = IF GapKind = "subtitle"
                                           THEN Append(sub_skipped, gap.ep_num)
                                           ELSE sub_skipped
                    ELSE UNCHANGED <<audio_skipped, sub_skipped>>
                 /\ IF substituted
                    THEN /\ audio_subs' = IF GapKind = "audio"
                                          THEN DictSet(audio_subs, gap.ep_num, choice)
                                          ELSE audio_subs
                         /\ sub_subs' = IF GapKind = "subtitle"
                                        THEN DictSet(sub_subs, gap.ep_num, choice)
                                        ELSE sub_subs
                    ELSE UNCHANGED <<audio_subs, sub_subs>>
                 /\ IF choice # SkipValue /\ choice = AbortValue
                    THEN wpc' = "AbortError" /\ UNCHANGED gap_idx
                    ELSE gap_idx' = gap_idx + 1 /\ UNCHANGED wpc
    /\ UNCHANGED <<sourceVars, audio_selections, subtitle_selections, selection_result,
                   plan, executed, exit_code, events, otherVars>>

\* _handle_gaps(audio) returns; select_tracks calls _handle_gaps(subtitle)
AudioGapsHandled ==
    /\ wpc = "audio_gaps"
    /\ gap_idx > Len(PendingGaps)
    /\ wpc' = "subtitle_gaps"
    /\ gap_idx' = 1
    /\ UNCHANGED <<sourceVars, audio_selections, subtitle_selections, audio_subs,
                   audio_skipped, sub_subs, sub_skipped, prompts, selection_result,
                   plan, executed, exit_code, events, otherVars>>

\* _handle_gaps(subtitle) returns; select_tracks returns its SelectionResult
ReturnSelection ==
    /\ wpc = "subtitle_gaps"
    /\ gap_idx > Len(PendingGaps)
    /\ \E skipped \in ListsOf(SetOf(audio_skipped) \cup SetOf(sub_skipped)) :
          selection_result' = Some(
              [audio_selections |-> audio_selections,
               subtitle_selections |-> subtitle_selections,
               audio_substitutions |-> audio_subs,
               subtitle_substitutions |-> sub_subs,
               skipped_episodes |-> skipped])
    /\ Goes("build_plan", "selection")
    /\ UNCHANGED <<sourceVars, audio_selections, subtitle_selections, gap_idx, audio_subs,
                   audio_skipped, sub_subs, sub_skipped, prompts,
                   plan, executed, otherVars>>

\* mutant of MainCatchesAbort: the exception is swallowed and the workflow
\* goes on with what has been collected
MainCatchesAbort_Swallowed ==
    /\ wpc = "AbortError"
    /\ selection_result' = Some(
           [audio_selections |-> audio_selections,
            subtitle_selections |-> subtitle_selections,
            audio_substitutions |-> audio_subs,
            subtitle_substitutions |-> sub_subs,
            skipped_episodes |-> audio_skipped \o sub_skipped])
    /\ wpc' = "build_plan"
    /\ UNCHANGED <<sourceVars, audio_selections, subtitle_selections, gap_idx, audio_subs,
                   audio_skipped, sub_subs, sub_skipped, prompts,
                   plan, executed, exit_code, events, otherVars>>

\* main: except AbortError -> sys.exit(1)
MainCatchesAbort ==
    /\ wpc = "AbortError"
    /\ Exit(1)
    /\ UNCHANGED <<sourceVars, selectorVars, plan, executed, otherVars>>

\* mutant of BuildMergePlan: the plan's skip list is the SelectionResult's list
\* itself ("skipped = selection_result.skipped_episodes"), so that what the
\* plan appends shows in the SelectionResult
BuildMergePlan_AliasesSkipList ==
    /\ wpc = "build_plan"
    /\ plan' = Some(build_merge_plan(episode_list, selection_result[1], output_dir))
    /\ selection_result' = Some([selection_result[1] EXCEPT
                                    !.skipped_episodes = plan'[1].skipped_episodes])
    /\ IF plan'[1].jobs = << >>
       THEN Exit(0)
       ELSE Goes("confirm", "plan")
    /\ UNCHANGED <<sourceVars, audio_selections, subtitle_selections, gap_idx, audio_subs,
                   audio_skipped, sub_skipped, sub_subs, prompts, executed, otherVars>>

\* _run, phase 3
BuildMergePlan ==
    /\ wpc = "build_plan"
    /\ plan' = Some(build_merge_plan(episode_list, selection_result[1], output_dir))
    /\ IF plan'[1].jobs = << >>
       THEN Exit(0)
       ELSE Goes("confirm", "plan")
    /\ UNCHANGED <<sourceVars, selectorVars, executed, otherVars>>

\* mutant of Confirm: the answer is asked for and not looked at
Confirm_AnswerIgnored ==
    /\ wpc = "confirm"
    /\ \E existing \in BOOLEAN :
       \E answer \in (IF existing THEN {"s", "o", "a"} ELSE {"yes", "no"}) :
          IF answer \in {"a", "no"}
          THEN wpc' = "execute" /\ UNCHANGED <<exit_code, events>>
          ELSE Goes("execute", answer)
    /\ UNCHANGED <<sourceVars, selectorVars, plan, executed, otherVars>>

\* _run, phase 4: outputs may exist already; the operator goes on or stops
Confirm ==
    /\ wpc = "confirm"
    /\ \E existing \in BOOLEAN :
       \E answer \in (IF existing THEN {"s", "o", "a"} ELSE {"yes", "no"}) :
          IF answer \in {"a", "no"}
          THEN Exit(0)
          ELSE Goes("execute", answer)
    /\ UNCHANGED <<sourceVars, selectorVars, plan, executed, otherVars>>

\* _run, phase 5: execute_plan and the summary
ExecutePlan ==
    /\ wpc = "execute"
    /\ executed' = TRUE
    /\ events' = Append(events, "execute")
    /\ \E failed \in BOOLEAN :
          wpc' = "exit" /\ exit_code' = Some(IF failed THEN 1 ELSE 0)
    /\ UNCHANGED <<sourceVars, selectorVars, plan, otherVars>>

WorkflowNext ==
    \/ StartRun
    \/ DisplayAnalysis
    \/ SelectAudio
    \/ SelectSubtitles
    \/ AnswerGap
    \/ AudioGapsHandled
    \/ ReturnSelection
    \/ MainCatchesAbort
    \/ BuildMergePlan
    \/ Confirm
    \/ ExecutePlan

SpecWorkflow == WorkflowInit /\ [][WorkflowNext]_vars

--------------------------------------------------------------------------
(* Claims about gap resolution, abort and the plan                         *)

Kinds == {"audio", "subtitle"}
KindSources(kind) ==
    IF kind = "audio" THEN external_audio_sources ELSE external_subtitle_sources
KindSelections(kind) == IF kind = "audio" THEN audio_selections ELSE subtitle_selections
KindSubs(kind) == IF kind = "audio" THEN audio_subs ELSE sub_subs
KindSkipped(kind) == IF kind = "audio" THEN audio_skipped ELSE sub_skipped

\* the source of that kind and name holds a file for the episode
Covers(kind, name, ep) ==
    \E i \in DOMAIN KindSources(kind) :
        KindSources(kind)[i].name = name /\ ep \in DOMAIN KindSources(kind)[i].files

\* the external source of that name is selected
SelectedExternal(kind, name) ==
    \E i \in DOMAIN KindSelections(kind) :
        /\ ~KindSelections(kind)[i].is_embedded
        /\ KindSelections(kind)[i].identifier = name

\* a coverage gap: an episode of the series a selected source has no file for
IsGap(kind, name, ep) ==
    /\ SelectedExternal(kind, name)
    /\ ep \in EpisodeNumbers(episode_list)
    /\ ~Covers(kind, name, ep)

Names(kind) == { KindSources(kind)[i].name : i \in DOMAIN KindSources(kind) }

Prompted(kind, name, ep) ==
    \E i \in DOMAIN prompts :
        /\ prompts[i].track_type = kind
        /\ prompts[i].identifier = name
        /\ prompts[i].ep_num = ep

\* position of the Skip and the Abort entry of a prompt
SkipEntry(p) == Len(p.alternatives) + 1
AbortEntry(p) == Len(p.alternatives) + 2

\* AbortError has been raised and not (yet) turned into the exit
Aborted == selection_result = None /\ prompts # << >> /\ wpc \in {"AbortError", "exit"}

\* C6: every prompt is for a gap of a selected external source; every prompt
\* answered ends in a substitution or a skip of its kind for the episode, or in
\* AbortError; and a SelectionResult is returned only after every gap has been
\* prompted and its episode has a substitution of the kind or is in the skip
\* list.
C6_GapsNeverIgnored ==
    /\ \A i \in DOMAIN prompts :
          LET p == prompts[i]
          IN  /\ IsGap(p.track_type, p.identifier, p.ep_num)
              /\ \/ p.ep_num \in DOMAIN KindSubs(p.track_type)
                 \/ InList(p.ep_num, KindSkipped(p.track_type))
                 \/ i = Len(prompts) /\ Aborted
    /\ selection_result # None =>
          \A kind \in Kinds : \A name \in Names(kind) :
          \A ep \in EpisodeNumbers(episode_list) :
              IsGap(kind, name, ep) =>
                  /\ Prompted(kind, name, ep)
                  /\ \/ ep \in DOMAIN (IF kind = "audio"
                                       THEN selection_result[1].audio_substitutions
                                       ELSE selection_result[1].subtitle_substitutions)
                     \/ InList(ep, selection_result[1].skipped_episodes)

\* a selection is returned in which one gap was substituted and one skipped
C6_Witness ==
    /\ selection_result # None
    /\ Len(prompts) = 2
    /\ IsGap("audio", Dub, 1) /\ IsGap("audio", Dub, 2)
    /\ DOMAIN selection_result[1].audio_substitutions = {1}
    /\ selection_result[1].skipped_episodes = <<2>>

\* C7 as stated: the alternatives of a prompt are exactly the other sources of
\* the kind that hold the episode; picking an alternative records exactly that
\* source for the episode and does not skip the episode, whatever the sources
\* are named; with a source holding {1,2} of {1,2,3} selected and the other
\* source holding {3} picked for episode 3, the result is {3: that source}
\* with nothing skipped.
C7_AsStated ==
    \A i \in DOMAIN prompts :
        LET p == prompts[i]
        IN  /\ { p.alternatives[j] : j \in DOMAIN p.alternatives }
                  = { name \in Names(p.track_type) :
                        name # p.identifier /\ Covers(p.track_type, name, p.ep_num) }
            /\ p.picked <= Len(p.alternatives) =>
                  /\ p.ep_num \in DOMAIN KindSubs(p.track_type)
                  /\ KindSubs(p.track_type)[p.ep_num] = p.alternatives[p.picked]
                  /\ ~InList(p.ep_num, KindSkipped(p.track_type))
            /\ ( /\ EpisodeNumbers(episode_list) = {1, 2, 3}
                 /\ Len(KindSources(p.track_type)) = 2
                 /\ Len(KindSelections(p.track_type)) = 1
                 /\ \A ep \in 1..3 : Covers(p.track_type, p.identifier, ep) <=> ep \in {1, 2}
                 /\ p.alternatives # << >>
                 /\ \A ep \in 1..3 : Covers(p.track_type, p.alternatives[1], ep) <=> ep = 3
                 /\ p.ep_num = 3 /\ p.picked = 1 ) =>
                    /\ KindSubs(p.track_type) = (3 :> p.alternatives[1])
                    /\ KindSkipped(p.track_type) = << >>

\* C8: once the operator has picked the Abort entry of a gap prompt, that
\* prompt stays the last one, no SelectionResult is returned, no plan is built
\* and none executed, and the process can only exit, with code 1.
C8_AbortIsHardStop ==
    \A i \in DOMAIN prompts :
        prompts[i].picked = AbortEntry(prompts[i]) =>
            /\ i = Len(prompts)
            /\ selection_result = None
            /\ plan = None
            /\ executed = FALSE
            /\ wpc \in {"AbortError", "exit"}
            /\ wpc = "exit" => exit_code = Some(1)

\* the operator aborts at an audio prompt that offers an alternative, after
\* an earlier answer, while a subtitle gap is still waiting
C8_Witness ==
    /\ wpc = "exit" /\ exit_code = Some(1)
    /\ Len(prompts) = 2
    /\ prompts[2].track_type = "audio"
    /\ prompts[2].alternatives # << >>
    /\ prompts[2].picked = AbortEntry(prompts[2])
    /\ \E ep \in EpisodeNumbers(episode_list) : IsGap("subtitle", Dub, ep)
    /\ plan = None /\ executed = FALSE

HasVideo(ep) ==
    \E i \in DOMAIN ep.embedded_tracks : ep.embedded_tracks[i].track_type = "VIDEO"

JobNumbers(p) == { p.jobs[i].episode.number : i \in DOMAIN p.jobs }

\* C9: the jobs of the plan are in strictly ascending episode order; an
\* episode has a job exactly when the selection does not skip it and it has an
\* embedded video track; an episode without a video track is in the plan's
\* skip list; every episode is in exactly one of the jobs and the plan's skip
\* list; and every job has exactly one video track, an embedded video track of
\* its own episode.
C9_PlanCoversEpisodes ==
    plan # None =>
        LET p == plan[1]
            sr == selection_result[1]
        IN  /\ \A i, j \in DOMAIN p.jobs :
                  i < j => p.jobs[i].episode.number < p.jobs[j].episode.number
            /\ \A i \in DOMAIN episode_list :
                  LET ep == episode_list[i]
                  IN  /\ ep.number \in JobNumbers(p)
                          <=> (~InList(ep.number, sr.skipped_episodes) /\ HasVideo(ep))
                      /\ ~HasVideo(ep) => InList(ep.number, p.skipped_episodes)
                      /\ ep.number \in JobNumbers(p)
                          <=> ~InList(ep.number, p.skipped_episodes)
            /\ \A i \in DOMAIN p.jobs :
                  LET job == p.jobs[i]
                  IN  /\ \E n \in DOMAIN episode_list : episode_list[n] = job.episode
                      /\ Len(job.video_tracks) = 1
                      /\ job.video_tracks[1].track_type = "VIDEO"
                      /\ job.video_tracks[1].source = "EMBEDDED"
                      /\ \E t \in DOMAIN job.episode.embedded_tracks :
                            job.episode.embedded_tracks[t] = job.video_tracks[1]

\* a plan with one job, one episode skipped by the operator and one skipped
\* for want of a video track
C9_Witness ==
    /\ plan # None
    /\ Len(plan[1].jobs) = 1
    /\ Len(selection_result[1].skipped_episodes) = 1
    /\ Len(plan[1].skipped_episodes) = 2
    /\ \E i \in DOMAIN episode_list :
          /\ ~HasVideo(episode_list[i])
          /\ episode_list[i].embedded_tracks # << >>
          /\ ~InList(episode_list[i].number, selection_result[1].skipped_episodes)

--------------------------------------------------------------------------
(* Claims about the order of the workflow                                  *)

Executions == { i \in DOMAIN events : events[i] = "execute" }

\* C17: execute_plan is called at most once, and only after analyze_series
\* returned a result, an audio option was available, select_tracks returned
\* without AbortError, build_merge_plan produced at least one job and the
\* operator confirmed the merge or chose skip or overwrite for existing
\* outputs, in this order; after no analysis result, no audio option, an
\* abort, an empty plan or a declined confirmation it is not called.
C17_ExecuteOnlyAfterAll ==
    /\ Cardinality(Executions) <= 1
    /\ executed <=> Executions # {}
    /\ executed =>
          /\ \E go \in {"yes", "s", "o"} :
                events = <<"analysis", "audio_options", "selection", "plan", go, "execute">>
          /\ apc = "done"
          /\ audio_options # << >>
          /\ selection_result # None
          /\ \A i \in DOMAIN prompts : prompts[i].picked # AbortEntry(prompts[i])
          /\ plan # None /\ plan[1].jobs # << >>
    /\ ( \/ apc = "none"
         \/ audio_options = << >>
         \/ \E i \in DOMAIN prompts : prompts[i].picked = AbortEntry(prompts[i])
         \/ plan # None /\ plan[1].jobs = << >>
         \/ wpc = "exit" /\ ~(\E i \in DOMAIN events : events[i] \in {"yes", "s", "o"}) )
       => ~executed

\* a run that went through a gap prompt, found outputs in place, was told to
\* overwrite them and executed the plan
C17_Witness ==
    /\ wpc = "exit"
    /\ executed
    /\ prompts # << >>
    /\ events = <<"analysis", "audio_options", "selection", "plan", "o", "execute">>

--------------------------------------------------------------------------
(* build_merge_plan on its own: an analysis result, any SelectionResult and  *)
(* any output directory                                                     *)

\* a source name no directory bears
Gone == <<"g","o","n","e">>

\* --output: not given (directory / "output"), another directory, or the
\* directory of the video files itself
OutputDirs == { "/v/output", OutputDir, "/v" }

\* selections of one kind, as select_tracks or any other caller may pass them
SelectionLists(keys) ==
    { << >>,
      << TrackSelection(keys[1], TRUE) >>,
      << TrackSelection(Dub, FALSE) >>,
      << TrackSelection(keys[2], TRUE), TrackSelection(Dub, FALSE) >>,
      << TrackSelection(Dub, FALSE), TrackSelection(keys[1], TRUE) >>,
      << TrackSelection(Alt, FALSE), TrackSelection(Dub, FALSE) >>,
      << TrackSelection(Gone, FALSE), TrackSelection(keys[1], TRUE) >> }

\* a key every usual file has a track for and a key no file has a track for
AudioKeys == << identity_key(TrackPool[1]), identity_key(RareTrack) >>
SubKeys == << identity_key(TrackPool[3]), identity_key(SubTrack(<<"r">>)) >>

\* substitutions for any of the episodes, by a source or by a name no source
\* bears
SubstitutionMaps(k) ==
    UNION { [numbers -> {Alt, Gone}] : numbers \in SUBSET (1..k) }

PlannerInit ==
    /\ \E k \in 1..MaxEpisodes :
          /\ \E tl \in { [n \in 1..k |-> UsualTracks],
                         [n \in 1..k |-> IF n = k THEN << >> ELSE UsualTracks] } :
             \E cov \in Coverage(k) :
                /\ external_audio_sources =
                       << ExternalSource(Dub, "AUDIO", cov), ExternalSource(Alt, "AUDIO", 1..k) >>
                /\ external_subtitle_sources = << ExternalSource(Dub, "SUBTITLE", cov) >>
                /\ episode_list = AttachExternal(Episodes(tl), external_audio_sources,
                                                 external_subtitle_sources)
          /\ \E audio \in SelectionLists(AudioKeys) \ {<< >>} :
             \E subs \in { << >>, << TrackSelection(SubKeys[1], TRUE),
                                    TrackSelection(Dub, FALSE) >> } :
             \E asub \in SubstitutionMaps(k) :
             \E ssub \in { EmptyMap, (k :> Gone) } :
             \E skipped \in { << >>, <<1>> } :
                selection_result = Some(
                    [audio_selections |-> audio, subtitle_selections |-> subs,
                     audio_substitutions |-> asub, subtitle_substitutions |-> ssub,
                     skipped_episodes |-> skipped])
    /\ output_dir \in OutputDirs
    /\ common_audio = _find_common_tracks(episode_list, "AUDIO")
    /\ common_subs = _find_common_tracks(episode_list, "SUBTITLE")
    /\ missing_tracks = _detect_missing_tracks(episode_list, common_audio, common_subs)
    /\ apc = "done"
    /\ audio_selections = << >> /\ subtitle_selections = << >>
    /\ gap_idx = 1
    /\ audio_subs = EmptyMap /\ audio_skipped = << >>
    /\ sub_subs = EmptyMap /\ sub_skipped = << >>
    /\ prompts = << >>
    /\ wpc = "build_plan" /\ plan = None /\ executed = FALSE /\ exit_code = None
    /\ events = <<"analysis", "audio_options", "selection">>
    /\ MatcherIdle
    /\ IdentityIdle
    /\ SeriesIdle
    /\ ExecutorIdle

PlannerNext == BuildMergePlan

SpecPlanner == PlannerInit /\ [][PlannerNext]_vars

--------------------------------------------------------------------------
(* Claims about the plan                                                   *)

\* every track a job uses
TracksOf(job) ==
    { job.video_tracks[i] : i \in DOMAIN job.video_tracks }
    \cup { job.audio_tracks[i] : i \in DOMAIN job.audio_tracks }
    \cup { job.subtitle_tracks[i] : i \in DOMAIN job.subtitle_tracks }

\* C16 as stated: for every output directory, each job's output path is the
\* output directory joined with the unchanged name of its episode's video
\* file, no two jobs have the same output path, and no job's output path is
\* the source file of a track used by that or any other job.
C16_AsStated ==
    plan # None =>
        LET jobs == plan[1].jobs
        IN  /\ \A j \in DOMAIN jobs :
                  jobs[j].output_path =
                      [parent |-> output_dir, name |-> jobs[j].episode.video_file.name]
            /\ \A i, j \in DOMAIN jobs :
                  i # j => jobs[i].output_path # jobs[j].output_path
            /\ \A i, j \in DOMAIN jobs :
               \A t \in TracksOf(jobs[j]) : jobs[i].output_path # t.source_file

\* what one selection contributes to the tracks of an episode: the first
\* embedded track with the key, or the track the external mapping holds
\* under the substitution name of the episode if a substitution is recorded,
\* under the selected name otherwise; nothing when there is no such track
Contribution(ep, sel, substitutions, external) ==
    IF sel.is_embedded
    THEN LET hits == { i \in DOMAIN ep.embedded_tracks :
                         identity_key(ep.embedded_tracks[i]) = sel.identifier }
         IN  IF hits = {} THEN << >>
             ELSE << ep.embedded_tracks[CHOOSE i \in hits : \A h \in hits : i <= h] >>
    ELSE LET name == IF ep.number \in DOMAIN substitutions
                     THEN substitutions[ep.number] ELSE sel.identifier
         IN  IF name \in DOMAIN external THEN << external[name] >> ELSE << >>

RECURSIVE Flatten(_)
Flatten(lists) ==
    IF lists = << >> THEN << >> ELSE Head(lists) \o Flatten(Tail(lists))

InOrderOfSelections(ep, selections, substitutions, external) ==
    Flatten([i \in DOMAIN selections |->
                Contribution(ep, selections[i], substitutions, external)])

\* C20: the audio and subtitle tracks of every job are, in the order of the
\* selections, for each embedded selection the episode's embedded track with
\* that identity key if there is one, and for each external selection the
\* track stored in the episode's external mapping under the substitution
\* name recorded for the episode if one is recorded, otherwise under the
\* selected source name; a selection without such a track contributes
\* nothing.
C20_ResolvedInSelectionOrder ==
    plan # None =>
        \A j \in DOMAIN plan[1].jobs :
            LET job == plan[1].jobs[j]
                sr == selection_result[1]
            IN  /\ job.audio_tracks =
                       InOrderOfSelections(job.episode, sr.audio_selections,
                                           sr.audio_substitutions, job.episode.external_audio)
                /\ job.subtitle_tracks =
                       InOrderOfSelections(job.episode, sr.subtitle_selections,
                                           sr.subtitle_substitutions,
                                           job.episode.external_subs)

\* a plan with a job whose episode has a substitution recorded: the selected
\* source, which has a file for the episode, gives way to the substitute, and
\* the embedded selection of a key the episode lacks gives nothing; and
\* another job whose substitution names no source, so that it gets no track
C20_Witness ==
    /\ plan # None
    /\ selection_result[1].audio_selections =
           << TrackSelection(AudioKeys[2], TRUE), TrackSelection(Dub, FALSE) >>
    /\ \E j \in DOMAIN plan[1].jobs :
          LET job == plan[1].jobs[j]
          IN  /\ job.episode.number \in DOMAIN selection_result[1].audio_substitutions
              /\ selection_result[1].audio_substitutions[job.episode.number] = Alt
              /\ Dub \in DOMAIN job.episode.external_audio
              /\ job.audio_tracks = << job.episode.external_audio[Alt] >>
    /\ \E j \in DOMAIN plan[1].jobs :
          LET job == plan[1].jobs[j]
          IN  /\ job.episode.number \in DOMAIN selection_result[1].audio_substitutions
              /\ selection_result[1].audio_substitutions[job.episode.number] = Gone
              /\ job.audio_tracks = << >>

--------------------------------------------------------------------------
(* analyzer.py: analyze_series from the scan of the directory to its return *)

MaxFailures == 2

\* a video file whose name holds no episode number
PlainVideo(stem) == [parent |-> "/v", name |-> stem]

\* what find_video_files may return: sorted paths of one directory, numbered
\* from 1 or from 2, or two files without a common pattern
VideoLists ==
    { [i \in 1..k |-> VideoFile(i + first - 1)] : k \in 0..MaxEpisodes, first \in 1..2 }
    \cup { << PlainVideo(<<"a">>), PlainVideo(<<"b">>) >> }

\* a file of a discovered source directory
SourceFile(source_type, name, n) ==
    [parent |-> IF source_type = "AUDIO" THEN "/v/audio" ELSE "/v/subs",
     name |-> name \o <<"-">> \o IntToStr(n)]

\* ExternalSource(name, source_type, base_path, files)
DiscoveredSource(name, source_type, numbers) ==
    [name |-> name, source_type |-> source_type,
     files |-> [n \in numbers |-> SourceFile(source_type, name, n)]]

\* what discover_audio_sources / discover_subtitle_sources may return, in
\* dict order; a subtitle directory may bear the name of an audio directory
DiscoveredAudio ==
    { << >>,
      << DiscoveredSource(Dub, "AUDIO", {1, 2}) >>,
      << DiscoveredSource(Dub, "AUDIO", {2, 3}), DiscoveredSource(Alt, "AUDIO", {1, 2}) >> }
DiscoveredSubs ==
    { << >>, << DiscoveredSource(Dub, "SUBTITLE", {1, 4}) >> }

\* every file of the sources
FilesOf(sources) ==
    UNION { { sources[i].files[n] : n \in DOMAIN sources[i].files } : i \in DOMAIN sources }

\* probe_file + parse_tracks of a video file: None stands for ProbeError
ProbeVideo(video_path, bad) ==
    IF video_path \in bad THEN None
    ELSE Some([i \in DOMAIN UsualTracks |->
                  [UsualTracks[i] EXCEPT !.index = i - 1, !.source_file = video_path]])

\* mutant of ProbeVideoFrom: an episode whose probe fails is left out
RECURSIVE ProbeVideoFrom_DropsFailed(_, _, _, _, _)
ProbeVideoFrom_DropsFailed(vmap, numbers, bad, i, episodes) ==
    IF i > Len(numbers) THEN episodes
    ELSE LET ep_num == numbers[i]
             tracks == ProbeVideo(vmap[ep_num], bad)
         IN  ProbeVideoFrom_DropsFailed(vmap, numbers, bad, i + 1,
                 IF tracks = None THEN episodes
                 ELSE Append(episodes,
                         [number |-> ep_num, video_file |-> vmap[ep_num],
                          embedded_tracks |-> tracks[1],
                          external_audio |-> EmptyMap, external_subs |-> EmptyMap]))

\* step 3, the loop over sorted(video_map.items()): the episodes in the
\* order they are put into the dict
RECURSIVE ProbeVideoFrom(_, _, _, _, _)
ProbeVideoFrom(vmap, numbers, bad, i, episodes) ==
    IF i > Len(numbers) THEN episodes
    ELSE LET ep_num == numbers[i]
             tracks == ProbeVideo(vmap[ep_num], bad)
         IN  ProbeVideoFrom(vmap, numbers, bad, i + 1,
                 Append(episodes,
                     [number |-> ep_num, video_file |-> vmap[ep_num],
                      embedded_tracks |-> IF tracks = None THEN << >> ELSE tracks[1],
                      external_audio |-> EmptyMap, external_subs |-> EmptyMap]))

\* probe_external_file: None when the probe fails or finds no stream of the
\* expected type
probe_external_file(file_path, track_type, bad) ==
    IF file_path \in bad THEN None ELSE Some(ExternalTrack(track_type, file_path))

\* episodes[ep_num].external_audio[source_name] = track (external_subs for a
\* subtitle source)
AttachTrack(episodes, ep_num, track_type, source_name, track) ==
    [e \in DOMAIN episodes |->
        IF episodes[e].number # ep_num THEN episodes[e]
        ELSE IF track_type = "AUDIO"
        THEN [episodes[e] EXCEPT !.external_audio = DictSet(@, source_name, track)]
        ELSE [episodes[e] EXCEPT !.external_subs = DictSet(@, source_name, track)]]

\* mutant of AttachFilesFrom: the loop over the files of a source ends at the
\* first file that cannot be probed
RECURSIVE AttachFilesFrom_StopsAtFailure(_, _, _, _, _, _)
AttachFilesFrom_StopsAtFailure(st, source, track_type, numbers, j, bad) ==
    IF j > Len(numbers) THEN st
    ELSE LET ep_num == numbers[j]
             file_path == source.files[ep_num]
             track == probe_external_file(file_path, track_type, bad)
         IN  IF ep_num \in EpisodeNumbers(st.episodes) /\ track = None
             THEN [st EXCEPT !.unmatched = Append(@, file_path)]
             ELSE AttachFilesFrom_StopsAtFailure(
                     IF ep_num \in EpisodeNumbers(st.episodes)
                     THEN [st EXCEPT !.episodes =
                              AttachTrack(@, ep_num, track_type, source.name, track[1])]
                     ELSE [st EXCEPT !.unmatched = Append(@, file_path)],
                     source, track_type, numbers, j + 1, bad)

\* step 5, the loop over source.files.items() of one source; the files are
\* visited by ascending episode number
RECURSIVE AttachFilesFrom(_, _, _, _, _, _)
AttachFilesFrom(st, source, track_type, numbers, j, bad) ==
    IF j > Len(numbers) THEN st
    ELSE LET ep_num == numbers[j]
             file_path == source.files[ep_num]
             track == probe_external_file(file_path, track_type, bad)
         IN  AttachFilesFrom(
                 IF ep_num \in EpisodeNumbers(st.episodes)
                 THEN (IF track # None
                       THEN [st EXCEPT !.episodes =
                                AttachTrack(@, ep_num, track_type, source.name, track[1])]
                       ELSE [st EXCEPT !.unmatched = Append(@, file_path)])
                 ELSE [st EXCEPT !.unmatched = Append(@, file_path)],
                 source, track_type, numbers, j + 1, bad)

\* step 5, the loop over the sources of one kind
RECURSIVE AttachSourcesFrom(_, _, _, _, _)
AttachSourcesFrom(st, sources, track_type, s, bad) ==
    IF s > Len(sources) THEN st
    ELSE AttachSourcesFrom(
             AttachFilesFrom(st, sources[s], track_type,
                             SortedInts(DOMAIN sources[s].files), 1, bad),
             sources, track_type, s + 1, bad)

\* the directory, the source directories and the files ffprobe will fail on
SeriesInit ==
    /\ video_files \in VideoLists
    /\ external_audio_sources \in DiscoveredAudio
    /\ external_subtitle_sources \in DiscoveredSubs
    /\ failing \in { bad \in SUBSET ({ video_files[i] : i \in DOMAIN video_files }
                                     \cup FilesOf(external_audio_sources)
                                     \cup FilesOf(external_subtitle_sources)) :
                       Cardinality(bad) <= MaxFailures }
    /\ video_map = << >>
    /\ unmatched_external_files = << >>
    /\ episode_list = << >> /\ common_audio = << >> /\ common_subs = << >>
    /\ missing_tracks = EmptyMap
    /\ apc = "scan"
    /\ SelectorIdle
    /\ wpc = "idle" /\ plan = None /\ executed = FALSE /\ exit_code = None
    /\ events = << >> /\ output_dir = None
    /\ MatcherIdle
    /\ IdentityIdle
    /\ ExecutorIdle

seriesRest == <<matcherVars, identityVars, workflowVars, executorVars>>

\* step 1: no video files, no result
ScanVideoFiles ==
    /\ apc = "scan"
    /\ apc' = IF video_files = << >> THEN "none" ELSE "match"
    /\ UNCHANGED <<episode_list, common_audio, common_subs, missing_tracks,
                   seriesVars, seriesRest>>

\* step 2: no episode pattern, no result
ExtractVideoNumbers ==
    /\ apc = "match"
    /\ video_map' = extract_episode_numbers(video_files)
    /\ apc' = IF video_map' = EmptyMap THEN "none" ELSE "probe"
    /\ UNCHANGED <<episode_list, common_audio, common_subs, missing_tracks,
                   video_files, failing, unmatched_external_files, seriesRest>>

\* step 3
ProbeVideoFiles ==
    /\ apc = "probe"
    /\ episode_list' = ProbeVideoFrom(video_map, SortedInts(DOMAIN video_map),
                                      failing, 1, << >>)
    /\ apc' = "attach"
    /\ UNCHANGED <<common_audio, common_subs, missing_tracks, seriesVars, seriesRest>>

\* steps 4 and 5: the audio sources, then the subtitle sources
AttachExternalFiles ==
    /\ apc = "attach"
    /\ LET audio == AttachSourcesFrom([episodes |-> episode_list, unmatched |-> << >>],
                                      external_audio_sources, "AUDIO", 1, failing)
           subs == AttachSourcesFrom(audio, external_subtitle_sources, "SUBTITLE", 1,
                                     failing)
       IN  /\ episode_list' = subs.episodes
           /\ unmatched_external_files' = subs.unmatched
    /\ apc' = "start"
    /\ UNCHANGED <<common_audio, common_subs, missing_tracks, video_files, video_map,
                   failing, seriesRest>>

SeriesNext ==
    \/ ScanVideoFiles
    \/ ExtractVideoNumbers
    \/ ProbeVideoFiles
    \/ AttachExternalFiles
    \/ FindCommonTracks
    \/ DetectMissingTracks

SpecSeries == SeriesInit /\ [][SeriesNext]_vars

--------------------------------------------------------------------------
(* Claims about analyze_series                                             *)

\* the sources of a kind and an episode's external mapping of that kind
SourcesOfKind(kind) ==
    IF kind = "AUDIO" THEN external_audio_sources ELSE external_subtitle_sources
ExternalOfKind(ep, kind) ==
    IF kind = "AUDIO" THEN ep.external_audio ELSE ep.external_subs

Analysed == apc \in {"start", "common", "done"}

\* the track probed from the file is stored under the source's name in the
\* external mapping of the source's kind of episode ep_num
StoredFor(kind, source, ep_num) ==
    \E e \in DOMAIN episode_list :
        /\ episode_list[e].number = ep_num
        /\ source.name \in DOMAIN ExternalOfKind(episode_list[e], kind)
        /\ LET track == ExternalOfKind(episode_list[e], kind)[source.name]
           IN  /\ track.source_file = source.files[ep_num]
               /\ track.track_type = kind
               /\ track.source = "EXTERNAL"

Unmatched(file_path) == \E u \in DOMAIN unmatched_external_files :
                            unmatched_external_files[u] = file_path

\* C13: after the external-attach step, for every external source and every
\* (episode number, file) entry of its mapping exactly one of the following
\* holds: the track probed from the file is stored under the source's name in
\* that episode's external mapping of the source's kind, or the file path is
\* recorded in unmatched_external_files; the latter if and only if the probe
\* failed or there is no such episode, also for the files that come after a
\* failed one; and nothing is stored or recorded but files of the sources.
C13_AttachedOrUnmatched ==
    Analysed =>
        /\ \A kind \in {"AUDIO", "SUBTITLE"} :
           \A s \in DOMAIN SourcesOfKind(kind) :
           \A n \in DOMAIN SourcesOfKind(kind)[s].files :
               LET source == SourcesOfKind(kind)[s]
               IN  /\ StoredFor(kind, source, n) # Unmatched(source.files[n])
                   /\ Unmatched(source.files[n])
                          <=> \/ source.files[n] \in failing
                              \/ n \notin EpisodeNumbers(episode_list)
        /\ \A u \in DOMAIN unmatched_external_files :
              /\ unmatched_external_files[u]
                     \in FilesOf(external_audio_sources) \cup FilesOf(external_subtitle_sources)
              /\ \A v \in DOMAIN unmatched_external_files :
                    unmatched_external_files[v] = unmatched_external_files[u] => v = u
        /\ \A e \in DOMAIN episode_list :
           \A kind \in {"AUDIO", "SUBTITLE"} :
           \A name \in DOMAIN ExternalOfKind(episode_list[e], kind) :
              \E s \in DOMAIN SourcesOfKind(kind) :
                  /\ SourcesOfKind(kind)[s].name = name
                  /\ episode_list[e].number \in DOMAIN SourcesOfKind(kind)[s].files
                  /\ StoredFor(kind, SourcesOfKind(kind)[s], episode_list[e].number)

\* a source whose first file cannot be probed and whose next file is
\* attached, next to a file for an episode there is no video of
C13_Witness ==
    /\ Analysed
    /\ \E s \in DOMAIN external_audio_sources :
       \E m, n \in DOMAIN external_audio_sources[s].files :
          /\ m < n
          /\ external_audio_sources[s].files[m] \in failing
          /\ m \in EpisodeNumbers(episode_list)
          /\ Unmatched(external_audio_sources[s].files[m])
          /\ StoredFor("AUDIO", external_audio_sources[s], n)
    /\ \E s \in DOMAIN external_subtitle_sources :
       \E n \in DOMAIN external_subtitle_sources[s].files :
          /\ n \notin EpisodeNumbers(episode_list)
          /\ external_subtitle_sources[s].files[n] \notin failing
          /\ Unmatched(external_subtitle_sources[s].files[n])

\* C14 as stated: an external file that cannot be probed is, once recorded as
\* unmatched, no coverage of its episode: the episode is among the missing
\* episodes of its source when that source is selected, and the source is
\* not among the alternatives offered for that episode.
C14_AsStated ==
    apc = "done" =>
        \A kind \in {"AUDIO", "SUBTITLE"} :
        \A s \in DOMAIN SourcesOfKind(kind) :
        \A n \in DOMAIN SourcesOfKind(kind)[s].files :
            LET source == SourcesOfKind(kind)[s]
            IN  ( /\ source.files[n] \in failing
                  /\ Unmatched(source.files[n])
                  /\ n \in EpisodeNumbers(episode_list) )
                => /\ n \in Missing(episode_list, SourcesOfKind(kind),
                                    TrackSelection(source.name, FALSE))
                   /\ \A o \in DOMAIN SourcesOfKind(kind) :
                         o # s =>
                            ~InList(source.name,
                                    Alternatives(SourcesOfKind(kind),
                                                 SourcesOfKind(kind)[o].name, n, 1))

\* C15: once the video files are probed, and up to the return, the episodes
\* are exactly the episode numbers inferred from the video file names, each
\* with the file it was inferred from; an episode whose probe failed has no
\* embedded tracks, and the tracks an episode has are those of its own file.
C15_EveryEpisodeKept ==
    apc \in {"attach", "start", "common", "done"} =>
        /\ video_map = extract_episode_numbers(video_files)
        /\ EpisodeNumbers(episode_list) = DOMAIN video_map
        /\ Len(episode_list) = Cardinality(DOMAIN video_map)
        /\ \A e \in DOMAIN episode_list :
              LET ep == episode_list[e]
              IN  /\ ep.video_file = video_map[ep.number]
                  /\ ep.video_file \in failing => ep.embedded_tracks = << >>
                  /\ \A t \in DOMAIN ep.embedded_tracks :
                        ep.embedded_tracks[t].source_file = ep.video_file

\* the probe of the first of three video files fails, the later ones are
\* probed, and the result is returned
C15_Witness ==
    /\ apc = "done"
    /\ Len(video_files) = 3
    /\ video_files[1] \in failing
    /\ episode_list[1].embedded_tracks = << >>
    /\ episode_list[2].embedded_tracks # << >>
    /\ episode_list[3].embedded_tracks # << >>

--------------------------------------------------------------------------
(* Claims about the analysis result and the plan built from it             *)

\* the SelectionResult of an operator who ticks every common embedded track
\* and nothing else
CommonSelection ==
    [audio_selections |->
         [i \in DOMAIN common_audio |-> TrackSelection(common_audio[i], TRUE)],
     subtitle_selections |->
         [i \in DOMAIN common_subs |-> TrackSelection(common_subs[i], TRUE)],
     audio_substitutions |-> EmptyMap,
     subtitle_substitutions |-> EmptyMap,
     skipped_episodes |-> << >>]

\* the embedded tracks of the kind with the key that the episode holds
EmbeddedWithKey(ep, kind, key) ==
    { i \in DOMAIN ep.embedded_tracks :
        /\ ep.embedded_tracks[i].track_type = kind
        /\ ep.embedded_tracks[i].source = "EMBEDDED"
        /\ identity_key(ep.embedded_tracks[i]) = key }

\* the tracks a job got for the common keys of a kind: one per key, in the
\* order of the keys, each an embedded track of the job's episode of that
\* kind with that key
ResolvedOneEach(job, tracks, common, kind) ==
    /\ Len(tracks) = Len(common)
    /\ \A i \in DOMAIN common :
          \E t \in EmbeddedWithKey(job.episode, kind, common[i]) :
              job.episode.embedded_tracks[t] = tracks[i]

\* C12: every identity key in common_embedded_audio and common_embedded_subs
\* is the key of an embedded track of that kind in every episode, and in the
\* plan built for a selection of the common keys every job holds exactly one
\* track of the right kind for each of them.
C12_CommonKeysResolve ==
    apc = "done" =>
        /\ \A e \in DOMAIN episode_list :
              /\ \A i \in DOMAIN common_audio :
                    EmbeddedWithKey(episode_list[e], "AUDIO", common_audio[i]) # {}
              /\ \A i \in DOMAIN common_subs :
                    EmbeddedWithKey(episode_list[e], "SUBTITLE", common_subs[i]) # {}
        /\ LET p == build_merge_plan(episode_list, CommonSelection, "/v/output")
           IN  /\ Len(p.jobs) = Len(episode_list)
               /\ \A j \in DOMAIN p.jobs :
                     /\ ResolvedOneEach(p.jobs[j], p.jobs[j].audio_tracks,
                                        common_audio, "AUDIO")
                     /\ ResolvedOneEach(p.jobs[j], p.jobs[j].subtitle_tracks,
                                        common_subs, "SUBTITLE")

\* three episodes with one common audio key, of which one episode holds two
\* tracks and another holds a track the others lack
C12_Witness ==
    /\ apc = "done"
    /\ Len(episode_list) = 3
    /\ common_audio = <<KeyJ>>
    /\ \E e \in DOMAIN episode_list :
          Cardinality(EmbeddedWithKey(episode_list[e], "AUDIO", KeyJ)) = 2
    /\ \E e \in DOMAIN episode_list :
          EmbeddedWithKey(episode_list[e], "AUDIO", KeyE) # {}


--------------------------------------------------------------------------
(* Claims about a selection with several external sources                  *)

\* no element of the list occurs at two positions
PairwiseDistinct(list) == \A i, j \in DOMAIN list : i # j => list[i] # list[j]

JobTracks(job, kind) ==
    IF kind = "audio" THEN job.audio_tracks ELSE job.subtitle_tracks

ResultSelections(sr, kind) ==
    IF kind = "audio" THEN sr.audio_selections ELSE sr.subtitle_selections

EpisodeExternal(ep, kind) ==
    IF kind = "audio" THEN ep.external_audio ELSE ep.external_subs

\* C21 as stated: in every job of the plan, every selected external source
\* that has a track for the job's episode supplies that track, whatever
\* substitution was recorded for the episode, and neither the audio tracks nor
\* the subtitle tracks of the job list a track twice.
C21_AsStated ==
    plan # None =>
        \A i \in DOMAIN plan[1].jobs :
            LET job == plan[1].jobs[i]
                sr == selection_result[1]
            IN  /\ \A kind \in Kinds :
                   \A s \in DOMAIN ResultSelections(sr, kind) :
                      LET sel == ResultSelections(sr, kind)[s]
                          external == EpisodeExternal(job.episode, kind)
                      IN  (~sel.is_embedded /\ sel.identifier \in DOMAIN external)
                             => InList(external[sel.identifier], JobTracks(job, kind))
                /\ PairwiseDistinct(job.audio_tracks)
                /\ PairwiseDistinct(job.subtitle_tracks)

--------------------------------------------------------------------------
(* cli.py: _run with the analyze_series it calls, from the directory to the *)
(* exit                                                                     *)

\* the start of _run: the directory, the source directories and the files
\* ffprobe will fail on
RunInit ==
    /\ video_files \in VideoLists
    /\ external_audio_sources \in DiscoveredAudio
    /\ external_subtitle_sources \in DiscoveredSubs
    /\ failing \in { bad \in SUBSET ({ video_files[i] : i \in DOMAIN video_files }
                                     \cup FilesOf(external_audio_sources)
                                     \cup FilesOf(external_subtitle_sources)) :
                       Cardinality(bad) <= MaxFailures }
    /\ video_map = << >>
    /\ unmatched_external_files = << >>
    /\ episode_list = << >> /\ common_audio = << >> /\ common_subs = << >>
    /\ missing_tracks = EmptyMap
    /\ apc = "scan"
    /\ SelectorIdle
    /\ wpc = "start" /\ plan = None /\ executed = FALSE /\ exit_code = None
    /\ events = << >> /\ output_dir = OutputDir
    /\ MatcherIdle
    /\ IdentityIdle
    /\ ExecutorIdle

\* _run calls analyze_series and goes on when it has returned
RunNext ==
    \/ SeriesNext
    \/ WorkflowNext

SpecRun == RunInit /\ [][RunNext]_vars

--------------------------------------------------------------------------
(* Claims about a whole run                                                *)

\* C22 as stated: every job of a plan built from a returned selection has at
\* least one audio track (the audio checkbox accepts no empty selection).
C22_AsStated ==
    plan # None =>
        /\ selection_result[1].audio_selections # << >>
        /\ \A i \in DOMAIN plan[1].jobs : plan[1].jobs[i].audio_tracks # << >>

\* C23: when analyze_series has run _find_common_tracks and
\* _detect_missing_tracks on its episodes, missing_tracks is empty: no episode
\* lacks an identity of the common lists computed from the same episodes.
C23_MissingTracksEmpty ==
    apc = "done" => missing_tracks = EmptyMap

\* the analysis is done for episodes that do not all hold the same audio
\* identities, and some identities are common
C23_Witness ==
    /\ apc = "done"
    /\ missing_tracks = EmptyMap
    /\ Len(episode_list) >= 2
    /\ common_audio # << >>
    /\ common_subs # << >>
    /\ \E i, j \in DOMAIN episode_list :
          KeysOfType(episode_list[i], "AUDIO") # KeysOfType(episode_list[j], "AUDIO")

\* the episodes whose video file ffprobe fails on
ProbeFailed == { n \in DOMAIN video_map : video_map[n] \in failing }

NoEmbedded(selections) == \A i \in DOMAIN selections : ~selections[i].is_embedded

\* C24: if the probe of an episode's video file fails, both common lists of
\* the analysis are empty, no embedded track is among the options or the
\* selections, and in a plan that episode has no job and is in the plan's skip
\* list.
C24_ProbeFailureEmptiesCommon ==
    ProbeFailed # {} =>
        /\ apc = "done" => common_audio = << >> /\ common_subs = << >>
        /\ wpc # "start" => NoEmbedded(audio_options) /\ NoEmbedded(sub_options)
        /\ NoEmbedded(audio_selections) /\ NoEmbedded(subtitle_selections)
        /\ plan # None =>
              \A n \in ProbeFailed :
                  /\ n \notin JobNumbers(plan[1])
                  /\ InList(n, plan[1].skipped_episodes)

\* a plan for a series in which the probe of a later episode failed while the
\* earlier episodes hold audio and subtitle tracks: the other episodes have
\* jobs, and the operator did not skip the failed one
C24_Witness ==
    /\ plan # None
    /\ plan[1].jobs # << >>
    /\ \E n \in ProbeFailed :
          /\ n > 1
          /\ n \in EpisodeNumbers(episode_list)
          /\ ~InList(n, selection_result[1].skipped_episodes)
          /\ InList(n, plan[1].skipped_episodes)
    /\ \E i \in DOMAIN episode_list :
          /\ KeysOfType(episode_list[i], "AUDIO") # {}
          /\ KeysOfType(episode_list[i], "SUBTITLE") # {}

--------------------------------------------------------------------------
(* Claims about the order of the gap prompts                               *)

\* the prompts of one kind come before i < j in that order
AudioBeforeSubtitles ==
    \A i, j \in DOMAIN prompts :
        (i < j /\ prompts[i].track_type = "subtitle") => prompts[j].track_type = "subtitle"

\* C26 as stated: the audio prompts come before the subtitle prompts, and
\* the episodes asked about within one kind are in strictly ascending order
\* (so no episode is asked about twice within a kind).
C26_AsStated ==
    /\ AudioBeforeSubtitles
    /\ \A i, j \in DOMAIN prompts :
          (i < j /\ prompts[i].track_type = prompts[j].track_type)
              => prompts[i].ep_num < prompts[j].ep_num

\* the place of the selected external source in the selections of its kind
SelectionIndex(kind, name) ==
    CHOOSE s \in DOMAIN KindSelections(kind) :
        ~KindSelections(kind)[s].is_embedded /\ KindSelections(kind)[s].identifier = name

\* the episodes of the Skip answers of a kind, in the order they were given
RECURSIVE SkipsOf(_, _)
SkipsOf(kind, i) ==
    IF i > Len(prompts) THEN << >>
    ELSE (IF prompts[i].track_type = kind /\ prompts[i].choice = SkipValue
          THEN <<prompts[i].ep_num>> ELSE << >>) \o SkipsOf(kind, i + 1)

\* the prompts of a kind for an episode that were answered with a source
Substituting(kind, ep) ==
    { i \in DOMAIN prompts :
        /\ prompts[i].track_type = kind /\ prompts[i].ep_num = ep
        /\ prompts[i].choice \notin {SkipValue, AbortValue} }

\* C26, amended: the audio prompts come before the subtitle prompts; within a
\* kind the selected sources are gone through in the order of the selection
\* and, for one source, the episodes asked about are in strictly ascending
\* order (each episode at most once per source); and the substitutions and
\* skips are determined by the answers: the skips of a kind are the episodes
\* answered with Skip, in order, and the substitute of an episode is the
\* source of the last answer that named one.
C26_QuestionsInSelectionThenEpisodeOrder ==
    /\ AudioBeforeSubtitles
    /\ \A i, j \in DOMAIN prompts :
          (i < j /\ prompts[i].track_type = prompts[j].track_type) =>
              LET kind == prompts[i].track_type
                  si == SelectionIndex(kind, prompts[i].identifier)
                  sj == SelectionIndex(kind, prompts[j].identifier)
              IN  \/ si < sj
                  \/ si = sj /\ prompts[i].ep_num < prompts[j].ep_num
    /\ \A kind \in Kinds :
          /\ KindSkipped(kind) = SkipsOf(kind, 1)
          /\ DOMAIN KindSubs(kind)
                = { ep \in EpisodeNumbers(episode_list) : Substituting(kind, ep) # {} }
          /\ \A ep \in DOMAIN KindSubs(kind) :
                LET last == CHOOSE i \in Substituting(kind, ep) :
                                \A o \in Substituting(kind, ep) : o <= i
                IN  KindSubs(kind)[ep] = prompts[last].choice

\* two selected audio sources with gaps: the second is asked about an earlier
\* episode than the first, one source is asked about two episodes, and a
\* subtitle gap is asked about after the audio gaps
C26_Witness ==
    /\ Len(prompts) >= 4
    /\ \E i, j \in DOMAIN prompts :
          /\ i < j
          /\ prompts[i].track_type = "audio" /\ prompts[j].track_type = "audio"
          /\ prompts[i].identifier # prompts[j].identifier
          /\ prompts[i].ep_num > prompts[j].ep_num
    /\ \E i, j \in DOMAIN prompts :
          /\ i < j
          /\ prompts[i].track_type = "audio" /\ prompts[j].track_type = "audio"
          /\ prompts[i].identifier = prompts[j].identifier
    /\ prompts[Len(prompts)].track_type = "subtitle"
    /\ audio_subs # EmptyMap
    /\ audio_skipped # << >>

--------------------------------------------------------------------------
(* Claims about the SelectionResult                                        *)

\* the episodes for which the operator picked the Skip entry of a prompt of
\* the kind
OperatorSkipped(kind) ==
    { prompts[i].ep_num :
        i \in { j \in DOMAIN prompts :
                  /\ prompts[j].track_type = kind
                  /\ prompts[j].picked = SkipEntry(prompts[j]) } }

\* the episodes asked about in the prompts of the kind
AskedAbout(kind) ==
    { prompts[i].ep_num : i \in { j \in DOMAIN prompts : prompts[j].track_type = kind } }

\* C27 as stated: the skipped_episodes of a returned SelectionResult are
\* exactly the episodes the operator skipped at an audio prompt or at a
\* subtitle prompt, each once; the audio substitutions stem from audio prompts
\* and the subtitle substitutions from subtitle prompts; and in a plan the
\* subtitle tracks of a job do not depend on the audio substitutions, nor the
\* audio tracks on the subtitle substitutions.
C27_AsStated ==
    selection_result # None =>
        LET sr == selection_result[1]
        IN  /\ SetOf(sr.skipped_episodes)
                  = OperatorSkipped("audio") \cup OperatorSkipped("subtitle")
            /\ PairwiseDistinct(sr.skipped_episodes)
            /\ DOMAIN sr.audio_substitutions \subseteq AskedAbout("audio")
            /\ DOMAIN sr.subtitle_substitutions \subseteq AskedAbout("subtitle")
            /\ plan # None =>
                  \A i \in DOMAIN plan[1].jobs :
                      LET job == plan[1].jobs[i]
                      IN  /\ job.subtitle_tracks = _resolve_subtitle_tracks(job.episode,
                                  [sr EXCEPT !.audio_substitutions = EmptyMap])
                          /\ job.audio_tracks = _resolve_audio_tracks(job.episode,
                                  [sr EXCEPT !.subtitle_substitutions = EmptyMap])

--------------------------------------------------------------------------
(* Claims about what select_tracks and build_merge_plan leave alone         *)

\* analyze_series is past its attach phase (step 5)
AttachDone == apc \in {"start", "common", "done", "none"}

\* C28: once the attach phase of the analysis is over, no step changes the
\* episodes (their numbers, files, embedded tracks and external mappings) or
\* the external sources; a returned SelectionResult is never changed; the
\* episodes a plan skips for want of a video track are in the plan's skip
\* list and not in the SelectionResult's; and the episode of every job is an
\* episode of the analysis, with all it holds.
C28_AnalysisAndSelectionLeftAlone ==
    /\ [][AttachDone => UNCHANGED <<episode_list, external_audio_sources,
                                    external_subtitle_sources>>]_vars
    /\ [][selection_result # None => selection_result' = selection_result]_vars
    /\ [](plan # None =>
            /\ \A i \in DOMAIN episode_list :
                  LET ep == episode_list[i]
                      chosen == SetOf(audio_skipped) \cup SetOf(sub_skipped)
                  IN  (~HasVideo(ep) /\ ep.number \notin chosen) =>
                          /\ InList(ep.number, plan[1].skipped_episodes)
                          /\ ~InList(ep.number, selection_result[1].skipped_episodes)
            /\ \A j \in DOMAIN plan[1].jobs :
                  \E i \in DOMAIN episode_list : plan[1].jobs[j].episode = episode_list[i])

\* a plan with a job, built from a selection in which the operator skipped
\* one episode, for a series with another episode that has no video track
C28_Witness ==
    /\ plan # None
    /\ plan[1].jobs # << >>
    /\ selection_result[1].skipped_episodes # << >>
    /\ Len(plan[1].skipped_episodes) > Len(selection_result[1].skipped_episodes)
    /\ \E i \in DOMAIN episode_list :
          /\ ~HasVideo(episode_list[i])
          /\ (episode_list[i].external_audio # EmptyMap
                \/ episode_list[i].external_subs # EmptyMap)
          /\ ~InList(episode_list[i].number, selection_result[1].skipped_episodes)

--------------------------------------------------------------------------
(* executor.py: execute_plan with its sequential and its parallel path      *)

MaxJobs == 3

\* os.cpu_count() on a machine with one core and with four
CpuCounts == {1, 4}

\* the jobs of a plan, as far as execute_plan looks at them: the episode
\* number, the codec of video_encoding, whether output_path exists, and
\* whether ffmpeg is going to succeed on the job
JobLists ==
    UNION { { [i \in 1..n |-> [number |-> i, codec |-> codec,
                               exists |-> existing[i], ffmpeg_ok |-> ok[i]]] :
                existing \in [1..n -> BOOLEAN], ok \in [1..n -> BOOLEAN],
                codec \in {"COPY", "H264"} } : n \in 0..MaxJobs }

\* plan.jobs and plan.jobs[0].video_encoding.codec in (H264, H264_AMF)
is_encoding_video ==
    exec_jobs # << >> /\ exec_jobs[1].codec \in {"H264", "H264_AMF"}

\* max(1, (os.cpu_count() or 2) // 2)
HalfOfCores == IF cpu_count \div 2 >= 1 THEN cpu_count \div 2 ELSE 1

\* the job is left alone: its output exists and overwrite is off
OutputKept(job) == job.exists /\ ~overwrite

\* _process_job: (episode_number, success, error_message)
_process_job(job) ==
    IF OutputKept(job)
    THEN [ep_num |-> job.number, success |-> Some(TRUE), error |-> None]
    ELSE [ep_num |-> job.number, success |-> Some(job.ffmpeg_ok),
          error |-> IF job.ffmpeg_ok THEN None ELSE Some("error")]

ExecutorInit ==
    /\ exec_jobs \in JobLists
    /\ overwrite \in BOOLEAN
    /\ verbose \in BOOLEAN
    /\ cpu_count \in CpuCounts
    /\ num_workers = 1 /\ job_idx = 1 /\ futures = << >>
    /\ successful_count = 0 /\ failed_count = 0 /\ skipped_count = 0
    /\ ffmpeg_runs = {}
    /\ xpc = "call"
    /\ MatcherIdle
    /\ IdentityIdle
    /\ AnalyzerIdle
    /\ WorkflowIdle
    /\ SeriesIdle

executorRest == <<matcherVars, identityVars, analyzerVars, workflowVars, seriesVars>>

\* execute_plan up to the call of one of the two paths; the parallel path
\* submits every job at once
ExecutePlanCall ==
    /\ xpc = "call"
    /\ num_workers' = IF verbose \/ is_encoding_video THEN 1 ELSE HalfOfCores
    /\ IF is_encoding_video /\ ~verbose
       THEN xpc' = "sequential" /\ futures' = << >>
       ELSE /\ xpc' = "parallel"
            /\ futures' = [i \in DOMAIN exec_jobs |-> [state |-> "pending", result |-> None]]
    /\ UNCHANGED <<exec_jobs, overwrite, verbose, cpu_count, job_idx, successful_count,
                   failed_count, skipped_count, ffmpeg_runs, executorRest>>

\* one round of the loop of _execute_with_progress
SequentialJob ==
    /\ xpc = "sequential"
    /\ job_idx <= Len(exec_jobs)
    /\ LET job == exec_jobs[job_idx]
       IN  IF OutputKept(job)
           THEN /\ skipped_count' = skipped_count + 1
                /\ UNCHANGED <<successful_count, failed_count, ffmpeg_runs>>
           ELSE /\ ffmpeg_runs' = ffmpeg_runs \cup {job.number}
                /\ IF job.ffmpeg_ok
                   THEN successful_count' = successful_count + 1 /\ UNCHANGED failed_count
                   ELSE failed_count' = failed_count + 1 /\ UNCHANGED successful_count
                /\ UNCHANGED skipped_count
    /\ job_idx' = job_idx + 1
    /\ UNCHANGED <<exec_jobs, overwrite, verbose, cpu_count, num_workers, futures, xpc,
                   executorRest>>

\* _execute_with_progress returns
SequentialReturn ==
    /\ xpc = "sequential"
    /\ job_idx > Len(exec_jobs)
    /\ xpc' = "done"
    /\ UNCHANGED <<exec_jobs, overwrite, verbose, cpu_count, num_workers, job_idx, futures,
                   successful_count, failed_count, skipped_count, ffmpeg_runs,
                   executorRest>>

Running == { i \in DOMAIN futures : futures[i].state = "running" }

\* a free worker of the pool takes the oldest submitted job
WorkerTakesJob ==
    /\ xpc = "parallel"
    /\ Cardinality(Running) < num_workers
    /\ \E i \in DOMAIN futures :
          /\ futures[i].state = "pending"
          /\ \A j \in DOMAIN futures : j < i => futures[j].state # "pending"
          /\ futures' = [futures EXCEPT ![i].state = "running"]
    /\ UNCHANGED <<exec_jobs, overwrite, verbose, cpu_count, num_workers, job_idx,
                   successful_count, failed_count, skipped_count, ffmpeg_runs, xpc,
                   executorRest>>

\* a worker comes to the end of _process_job
WorkerFinishesJob ==
    /\ xpc = "parallel"
    /\ \E i \in Running :
          /\ futures' = [futures EXCEPT ![i] = [state |-> "done",
                                                result |-> Some(_process_job(exec_jobs[i]))]]
          /\ ffmpeg_runs' = IF OutputKept(exec_jobs[i]) THEN ffmpeg_runs
                            ELSE ffmpeg_runs \cup {exec_jobs[i].number}
    /\ UNCHANGED <<exec_jobs, overwrite, verbose, cpu_count, num_workers, job_idx,
                   successful_count, failed_count, skipped_count, xpc, executorRest>>

\* one round of "for future in as_completed(futures)": any finished future
\* that has not been handed out yet
CollectResult ==
    /\ xpc = "parallel"
    /\ \E i \in DOMAIN futures :
          /\ futures[i].state = "done"
          /\ LET success == futures[i].result[1].success
             IN  IF success = None
                 THEN /\ skipped_count' = skipped_count + 1
                      /\ UNCHANGED <<successful_count, failed_count>>
                 ELSE IF success[1]
                 THEN /\ successful_count' = successful_count + 1
                      /\ UNCHANGED <<failed_count, skipped_count>>
                 ELSE /\ failed_count' = failed_count + 1
                      /\ UNCHANGED <<successful_count, skipped_count>>
          /\ futures' = [futures EXCEPT ![i].state = "collected"]
    /\ UNCHANGED <<exec_jobs, overwrite, verbose, cpu_count, num_workers, job_idx,
                   ffmpeg_runs, xpc, executorRest>>

\* _execute_parallel returns
ParallelReturn ==
    /\ xpc = "parallel"
    /\ \A i \in DOMAIN futures : futures[i].state = "collected"
    /\ xpc' = "done"
    /\ UNCHANGED <<exec_jobs, overwrite, verbose, cpu_count, num_workers, job_idx, futures,
                   successful_count, failed_count, skipped_count, ffmpeg_runs,
                   executorRest>>

ExecutorNext ==
    \/ ExecutePlanCall
    \/ SequentialJob
    \/ SequentialReturn
    \/ WorkerTakesJob
    \/ WorkerFinishesJob
    \/ CollectResult
    \/ ParallelReturn

SpecExecutor == ExecutorInit /\ [][ExecutorNext]_vars

--------------------------------------------------------------------------
(* Claims about execute_plan                                               *)

\* the jobs whose output file exists already
Existing == { i \in DOMAIN exec_jobs : exec_jobs[i].exists }

\* C29 as stated: when execute_plan has returned with overwrite off, no
\* ffmpeg command was run for a job whose output file exists, skipped_count
\* is the number of those jobs and successful_count the number of the other
\* jobs ffmpeg succeeded on, on either path; and in every case the three
\* counts add up to the number of jobs.
C29_AsStated ==
    xpc = "done" =>
        /\ ~overwrite =>
              /\ \A i \in Existing : exec_jobs[i].number \notin ffmpeg_runs
              /\ skipped_count = Cardinality(Existing)
              /\ successful_count
                    = Cardinality({ i \in DOMAIN exec_jobs \ Existing : exec_jobs[i].ffmpeg_ok })
        /\ successful_count + failed_count + skipped_count = Len(exec_jobs)

--------------------------------------------------------------------------
(* Claims about the tables of display_analysis                             *)

\* C30 as stated: once display_analysis has shown its tables, the coverage
\* of an external source reads "all" exactly when the source holds a file for
\* every episode of the series; no gap prompt is ever shown for a source that
\* reads "all"; and for any other source the column reads n/total, n being
\* the number of episodes of the series the source holds a file for.
C30_AsStated ==
    InList("audio_options", events) =>
        \A kind \in Kinds : \A s \in DOMAIN KindSources(kind) :
            LET source == KindSources(kind)[s]
                shown == CoverageColumn(source, episode_list)
                covered == EpisodeNumbers(episode_list) \cap DOMAIN source.files
            IN  /\ shown = <<"a","l","l">>
                      <=> EpisodeNumbers(episode_list) \subseteq DOMAIN source.files
                /\ shown = <<"a","l","l">> => ~\E ep \in EpisodeNumbers(episode_list) :
                                                  Prompted(kind, source.name, ep)
                /\ shown # <<"a","l","l">> =>
                      shown = IntToStr(Cardinality(covered)) \o <<"/">>
                                  \o IntToStr(Len(episode_list))

==========================================================================
